---- MODULE Spec2Model ----
(***************************************************************************)
(* Verification model of the TTS benchmarking tool (Streamlit app):        *)
(*   - the ELO replay of display_final_results_2 / leaderboard_page,       *)
(*   - the Ranked Blind Test session state machine (blind_test_2 state),   *)
(*   - the N-way blind test vote of display_blind_test_samples,            *)
(*   - the voice selection of config.py and of the comparison generators,  *)
(*   - the provider adapters of tts_providers.py,                          *)
(*   - the final results of a test and the Leaderboard page.               *)
(* Each part has its own specification; the variables of the other parts   *)
(* stay at their initial value.                                            *)
(***************************************************************************)
EXTENDS Integers, Sequences, FiniteSets, TLC

VARIABLES
    \* ---- ELO replay (display_final_results_2, leaderboard_page) ----
    test_session_elo,   \* provider -> rating, fixed point (EloScale units per point)
    eloLast,            \* the last replayed comparison: ratings before and after
    eloSteps,           \* number of comparisons replayed so far
    \* ---- provider registry (config.py) ----
    TTS_PROVIDERS,      \* provider id -> descriptor (supported_voices, voice_info, max_chars)
    \* ---- Ranked Blind Test (blind_test_2_page) ----
    ss,                 \* st.session_state
    db,                 \* the rating store: calls received
    shown,              \* the view the browser displays
    run,                \* the last script run: trigger, handler invocation, update calls
    voteStreak,         \* consecutive handler invocations for one comparison index
    shownVotes,         \* vote clicks on the comparison the browser displays
    tests,              \* clicks on "Start Voice Battle" so far
    sampleFailures,     \* generations whose samples failed so far
    storeFailures,      \* update_elo_ratings calls that raised so far
    \* ---- N-way blind test (display_blind_test_samples) ----
    blind_test_samples,     \* the providers of the samples, in label order A, B, ...
    blind_test_voted,
    blind_test_vote_choice, \* the index of the chosen label, 0 for None
    blindVote,              \* the store calls made by the last "Submit Vote"
    blindTests,             \* sample sets generated so far
    \* ---- voice selection (Blind Test and Falcon vs Zeroshot pages) ----
    current_page,   \* the page of the sidebar the session stays on
    blind_test,     \* the blind_test_* keys of st.session_state
    fvs,            \* the fvs_* keys of st.session_state
    chosen,         \* the <<provider, voice>> of the last selection or generation
    lastGen,        \* the request of the last generation and whether it stored a pair
    \* ---- adapters (tts_providers.py) ----
    adapter,        \* the provider instance: its id, _voices_fetched, voice_id_map
    call,           \* the last generate_speech call: request, requests sent, result
    voices_requests, \* provider id -> voices-list requests sent by the process so far
    ping,           \* the last measure_ping_latency call: the probes and what it returned
    \* ---- Leaderboard page (leaderboard_page) ----
    leaderboard,    \* the votes of the store and the rows the page displays
    \* ---- final results of a test (display_final_results_2) ----
    leaderboard_data, \* the rows of the table of the final results
    \* ---- Quick Test page (quick_test_page, run_quick_test) ----
    quick_test,     \* the run of a quick test: position of the loop, results, progress
    \* ---- configuration (config.py) ----
    environ,        \* os.environ: variable name -> value, "" when unset
    key_call,       \* the last get_api_key call: the provider, what it returned or raised
    config_status,  \* the "providers" part of what validate_config returned last
    \* ---- concurrent generate_speech calls on one ElevenLabs instance ----
    tasks           \* where the coroutine of every task is suspended, the voice of
                    \* its request, and the requests _fetch_voices_from_api has
                    \* sent for the instance

eloVars == <<test_session_elo, eloLast, eloSteps>>

uiVars == <<ss, db, shown, run, voteStreak, shownVotes, tests, sampleFailures, storeFailures>>

blindVars == <<blind_test_samples, blind_test_voted, blind_test_vote_choice,
               blindVote, blindTests>>

vars == <<test_session_elo, eloLast, eloSteps, TTS_PROVIDERS,
          ss, db, shown, run, voteStreak, shownVotes, tests, sampleFailures, storeFailures,
          blind_test_samples, blind_test_voted, blind_test_vote_choice, blindVote, blindTests,
          current_page, blind_test, fvs, chosen, lastGen, adapter, call,
          voices_requests, ping, leaderboard, leaderboard_data, quick_test,
          environ, key_call, config_status, tasks>>

voiceVars == <<current_page, blind_test, fvs, chosen, lastGen>>

adapterVars == <<adapter, call, voices_requests, ping>>

boardVars == <<leaderboard, leaderboard_data>>

quickVars == <<quick_test>>

configVars == <<environ, key_call, config_status>>

taskVars == <<tasks>>

\* what the actions of one part leave unchanged
ElseThanElo == <<TTS_PROVIDERS, configVars, taskVars, uiVars, blindVars, voiceVars, adapterVars, boardVars, quickVars>>
ElseThanUI == <<TTS_PROVIDERS, configVars, taskVars, eloVars, blindVars, voiceVars, adapterVars, boardVars, quickVars>>
ElseThanBlind == <<TTS_PROVIDERS, configVars, taskVars, eloVars, uiVars, voiceVars, adapterVars, boardVars, quickVars>>
ElseThanAdapter == <<TTS_PROVIDERS, configVars, taskVars, eloVars, uiVars, blindVars, voiceVars, boardVars, quickVars>>
\* the voice pages write the ranked session ss when a ranked pair is generated
ElseThanVoice ==
    <<TTS_PROVIDERS, configVars, taskVars, eloVars, blindVars, adapterVars, boardVars, quickVars, db, shown, run,
     voteStreak,
      shownVotes, tests, sampleFailures, storeFailures>>

(***************************************************************************)
(* Bounds of the model                                                     *)
(***************************************************************************)
MaxReplay == 4          \* comparisons replayed in one ELO replay
MaxVotes == 5           \* votes recorded in one browser session
MaxTests == 2           \* clicks on "Start Voice Battle" in one browser session
MaxSampleFailures == 1  \* failed sample generations in one browser session
MaxStoreFailures == 1   \* raising update_elo_ratings calls in one browser session
MaxBlindTests == 2      \* sample sets generated for the N-way blind test
MaxSelected == 2        \* Murf voices picked in the multiselect of the Blind Test setup
MaxComparisons == 2     \* comparisons voted in one unranked test
MaxExcess == 1          \* characters of a request text above a provider's max_chars
MaxVoicesRequests == 3  \* voices-list requests sent to one provider by one process
MaxUnrankedVotes == 1   \* votes of the unranked tests that reach the store
MaxTasks == 2           \* concurrent generate_speech calls on one adapter instance

(***************************************************************************)
(* ELO arithmetic.  Python computes with IEEE doubles; the model computes  *)
(* in fixed point: a rating r is the integer r * EloScale, an expected     *)
(* score e the integer e * EloScale, every division rounds down.  The      *)
(* rounding of the doubles is modelled by the rounding of the fixed point. *)
(***************************************************************************)
EloScale == 10000
FracBits == 12
K_FACTOR_16 == 16
K_FACTOR == 32
INITIAL_ELO == 1000

Competitors == {"murf_falcon_oct23", "deepgram", "cartesia_sonic2"}

Abs(x) == IF x < 0 THEN -x ELSE x

\* 10^(2^-k) * EloScale for k = 1..FracBits
Pow10Root == <<31623, 17783, 13335, 11548, 10746, 10366,
               10182, 10090, 10045, 10023, 10011, 10006>>

RECURSIVE Pow2(_)
Pow2(n) == IF n = 0 THEN 1 ELSE 2 * Pow2(n - 1)

RECURSIVE Pow10(_)
Pow10(n) == IF n = 0 THEN 1 ELSE 10 * Pow10(n - 1)

\* 10^(fp / 2^FracBits) * EloScale, fp in 0 .. 2^FracBits - 1: the product of
\* the roots selected by the binary digits of fp, most significant first.
RECURSIVE Pow10Frac(_, _, _)
Pow10Frac(fp, k, acc) ==
    IF k > FracBits THEN acc
    ELSE LET bit == (fp \div Pow2(FracBits - k)) % 2
         IN  Pow10Frac(fp, k + 1,
                       IF bit = 1 THEN (acc * Pow10Root[k]) \div EloScale ELSE acc)

\* math.pow(10, d / 400) * EloScale for a rating difference d (fixed point)
MathPow10(d) ==
    LET n  == (Abs(d) * 128) \div 125000      \* |d| / (400 * EloScale) * 2^FracBits
        ip == n \div Pow2(FracBits)
        fp == n % Pow2(FracBits)
        q  == Pow10Frac(fp, 1, EloScale) * Pow10(ip)
    IN  IF d >= 0 THEN q ELSE (EloScale * EloScale) \div q

\* expected = 1 / (1 + math.pow(10, (other - own) / 400))
ExpectedScore(own, other) ==
    (EloScale * EloScale) \div (EloScale + MathPow10(other - own))

\* a plausible slip: the loser's expected score taken from the winner's side
EloUpdateSameExpectation(winner_rating, loser_rating) ==
    LET expected_winner == ExpectedScore(winner_rating, loser_rating)
    IN  [winner |-> winner_rating + K_FACTOR * (EloScale - expected_winner),
         loser  |-> loser_rating + K_FACTOR * (0 - expected_winner)]

\* R'_X = R_X + K (S_X - E_X): winner S = 1, loser S = 0
EloUpdate(winner_rating, loser_rating) ==
    LET expected_winner == ExpectedScore(winner_rating, loser_rating)
        expected_loser  == ExpectedScore(loser_rating, winner_rating)
    IN  [winner |-> winner_rating + K_FACTOR * (EloScale - expected_winner),
         loser  |-> loser_rating + K_FACTOR * (0 - expected_loser)]

(***************************************************************************)
(* Provider registry and voice selection (config.py).  A descriptor holds  *)
(* supported_voices (a list used as a set), voice_info (a dict: its        *)
(* insertion order is the order of the sequence) and max_chars.            *)
(***************************************************************************)
VoiceInfo(id, gender, accent) == [id |-> id, gender |-> gender, accent |-> accent]

TTSConfig(supported_voices, max_chars, voice_info) ==
    [supported_voices |-> supported_voices, max_chars |-> max_chars,
     voice_info |-> voice_info]

\* the keys of a voice_info dict, in insertion order
VoiceIdsOf(voice_info) == [i \in 1 .. Len(voice_info) |-> voice_info[i].id]

Range(seq) == {seq[i] : i \in 1 .. Len(seq)}

\* an excerpt of the shipped TTS_PROVIDERS: three providers, three voices each
ProviderIds == Competitors \cup {"murf_zeroshot"}

\* the providers of the registry excerpt
RegistryIds == ProviderIds \cup {"elevenlabs_flash"}

ShippedRegistry ==
    [p \in RegistryIds |->
        CASE p = "murf_falcon_oct23" ->
                 TTSConfig({"en-US-alina", "en-UK-hazel", "en-US-cooper"}, 3000,
                           <<VoiceInfo("en-US-alina", "female", "US"),
                             VoiceInfo("en-UK-hazel", "female", "UK"),
                             VoiceInfo("en-US-cooper", "male", "US")>>)
          [] p = "murf_zeroshot" ->
                 TTSConfig({"en-US-alina", "en-UK-hazel", "en-US-cooper"}, 3000,
                           <<VoiceInfo("en-US-alina", "female", "US"),
                             VoiceInfo("en-UK-hazel", "female", "UK"),
                             VoiceInfo("en-US-cooper", "male", "US")>>)
          [] p = "elevenlabs_flash" ->
                 TTSConfig({"Laura", "Jessica", "Liam", "Elizabeth", "Jarnathan", "Dan",
                            "Nathaniel"}, 5000,
                           <<VoiceInfo("Laura", "female", "US"),
                             VoiceInfo("Jessica", "female", "US"),
                             VoiceInfo("Liam", "male", "US"),
                             VoiceInfo("Elizabeth", "female", "UK"),
                             VoiceInfo("Jarnathan", "male", "US"),
                             VoiceInfo("Dan", "male", "UK"),
                             VoiceInfo("Nathaniel", "male", "UK")>>)
          [] p = "deepgram" ->
                 TTSConfig({"aura-asteria-en", "aura-luna-en", "aura-orion-en"}, 2000,
                           <<VoiceInfo("aura-asteria-en", "female", "US"),
                             VoiceInfo("aura-luna-en", "female", "US"),
                             VoiceInfo("aura-orion-en", "male", "US")>>)
          [] OTHER ->
                 TTSConfig({"British Lady", "Conversational Lady", "Midwestern Woman"}, 5000,
                           <<VoiceInfo("British Lady", "female", "UK"),
                             VoiceInfo("Conversational Lady", "male", "US"),
                             VoiceInfo("Midwestern Woman", "female", "US")>>)]

\* "en-US" in voice_id
HasEnUS(voice_id) == voice_id \in {"en-US-alina", "en-US-cooper"}

\* the entries of voice_info matching gender that are in supported_voices
get_voices_by_gender(provider_id, gender) ==
    IF provider_id \in DOMAIN TTS_PROVIDERS
    THEN LET cfg == TTS_PROVIDERS[provider_id]
         IN  VoiceIdsOf(SelectSeq(cfg.voice_info,
                 LAMBDA info : info.gender = gender /\ info.id \in cfg.supported_voices))
    ELSE <<>>

\* as above, and matching the locale: None keeps all, "US" keeps accent US or an
\* en-US id, any other locale keeps nothing
get_voices_by_gender_and_locale(provider_id, gender, locale) ==
    IF provider_id \in DOMAIN TTS_PROVIDERS
    THEN LET cfg == TTS_PROVIDERS[provider_id]
         IN  VoiceIdsOf(SelectSeq(cfg.voice_info,
                 LAMBDA info :
                     /\ info.gender = gender /\ info.id \in cfg.supported_voices
                     /\ \/ locale = "None"
                        \/ locale = "US" /\ (info.accent = "US" \/ HasEnUS(info.id))))
    ELSE <<>>

NoElo == [winner |-> "", loser |-> "", rw |-> 0, rl |-> 0, rw2 |-> 0, rl2 |-> 0]

\* the replay starts: every competitor seeded at 1000
InitElo ==
    /\ test_session_elo = [p \in Competitors |-> INITIAL_ELO * EloScale]
    /\ eloLast = NoElo
    /\ eloSteps = 0

\* one iteration of the replay loop over the recorded (winner, loser) pairs
ReplayStep(winner, loser) ==
    /\ eloSteps < MaxReplay
    /\ winner # loser
    /\ LET winner_rating == test_session_elo[winner]
           loser_rating  == test_session_elo[loser]
           new           == EloUpdate(winner_rating, loser_rating)
       IN  /\ test_session_elo' = [test_session_elo EXCEPT ![winner] = new.winner,
                                                           ![loser]  = new.loser]
           /\ eloLast' = [winner |-> winner, loser |-> loser,
                          rw |-> winner_rating, rl |-> loser_rating,
                          rw2 |-> new.winner, rl2 |-> new.loser]
    /\ eloSteps' = eloSteps + 1
    /\ UNCHANGED ElseThanElo

(***************************************************************************)
(* Ranked Blind Test (blind_test_2_page): st.session_state is the record   *)
(* ss, the rating store (database.db) is seen through its call counters.   *)
(* A script run is a function of the session, the store, the widget that   *)
(* triggered the run and the run's random and network inputs.              *)
(***************************************************************************)
CartesiaIds == {"cartesia_sonic2", "cartesia_turbo", "cartesia_sonic3"}

\* the keys of CartesiaTTSProvider.voice_id_map
CartesiaVoiceIdMap ==
    {"British Lady", "Conversational Lady", "Classy British Man",
     "Friendly Reading Man", "Midwestern Woman", "Professional Man", "Newsman"}

\* voice_info.get(voice_id): the entry, or the gender "unknown" entry if absent
VoiceInfoGet(provider_id, voice_id) ==
    LET infos == SelectSeq(TTS_PROVIDERS[provider_id].voice_info,
                           LAMBDA info : info.id = voice_id)
    IN  IF infos = <<>> THEN VoiceInfo(voice_id, "unknown", "") ELSE infos[1]

\* the re-verification the generator applies to a candidate list: supported,
\* present in voice_info with the gender, US accent or en-US id
RankedVoiceOk(provider_id, v, gender_filter, locale_filter) ==
    /\ v \in TTS_PROVIDERS[provider_id].supported_voices
    /\ VoiceInfoGet(provider_id, v).gender = gender_filter
    /\ locale_filter = "US"
    /\ (VoiceInfoGet(provider_id, v).accent = "US" \/ HasEnUS(v))

\* "If no voices found, try from voice_info"
OrElse(voices, fallback) == IF voices # <<>> THEN voices ELSE fallback

\* the candidate list of one competitor; for Cartesia only voices of voice_id_map
RankedCandidates(provider_id, gender_filter, locale_filter) ==
    OrElse(SelectSeq(get_voices_by_gender_and_locale(provider_id, gender_filter, locale_filter),
                     LAMBDA v :
                         /\ RankedVoiceOk(provider_id, v, gender_filter, locale_filter)
                         /\ (provider_id \in CartesiaIds => v \in CartesiaVoiceIdMap)),
           SelectSeq(VoiceIdsOf(TTS_PROVIDERS[provider_id].voice_info),
                     LAMBDA v : RankedVoiceOk(provider_id, v, gender_filter, locale_filter)))

\* voices[comparison_index % len]; a Cartesia voice outside voice_id_map is
\* replaced from the fresh list of voices inside it; "" when the run aborts
PickRankedVoice(provider_id, voices, fresh, comparison_index) ==
    IF voices = <<>> THEN ""
    ELSE IF provider_id \in CartesiaIds
            /\ voices[((comparison_index % Len(voices)) % Len(voices)) + 1] \notin CartesiaVoiceIdMap
    THEN IF fresh = <<>> THEN ""
         ELSE fresh[((comparison_index % Len(voices)) % Len(fresh)) + 1]
    ELSE voices[((comparison_index % Len(voices)) % Len(voices)) + 1]

\* the fresh Cartesia list: the candidates that are keys of voice_id_map
InVoiceIdMap(voices) == SelectSeq(voices, LAMBDA v : v \in CartesiaVoiceIdMap)

WithFresh(provider_id, voices, comparison_index) ==
    PickRankedVoice(provider_id, voices, InVoiceIdMap(voices), comparison_index)

\* the voice of one competitor for comparison_index
RankedVoice(provider_id, gender_filter, locale_filter, comparison_index) ==
    WithFresh(provider_id, RankedCandidates(provider_id, gender_filter, locale_filter),
              comparison_index)

\* sample_a, sample_b: the provider that generated the audio played under A, B
NoPair ==
    [kind |-> "None", sample_a |-> "", sample_b |-> "", provider_a |-> "", provider_b |-> "",
     voice_a |-> "", voice_b |-> "", comparison_id |-> -1]

\* a pair without samples that the page would display for voting
ErrorPairOffered == [NoPair EXCEPT !.kind = "pair"]

\* {"error": True, "message": ...}
ErrorPair == [NoPair EXCEPT !.kind = "error"]

InitSession ==
    [blind_test_2_current_pair |-> NoPair,
     blind_test_2_comparison_count |-> 0,
     blind_test_2_max_comparisons |-> 25,
     blind_test_2_results_history |-> <<>>,
     blind_test_2_selected_competitors |-> <<>>,
     blind_test_2_final_competitors |-> <<>>,
     blind_test_2_gender_filter |-> "female",
     blind_test_2_setup_complete |-> FALSE,
     show_final_results_2 |-> FALSE,
     blind_test_2_comparison_pairs |-> <<>>,
     blind_test_2_pair_index |-> 0,
     blind_test_2_locale_filter |-> "US",
     force_regenerate_2 |-> FALSE,
     last_voted_comparison_2 |-> -1]

InitStore == [update_calls |-> 0, save_calls |-> 0]

\* what one script run did: the session and the store after it, the view it
\* rendered ("rerun" when it ended in st.rerun()), and whether the vote handler
\* ran, for which comparison index, and how many update_elo_ratings calls it made
RunResult(S, D, view) ==
    [ss |-> S, db |-> D, view |-> view, handler |-> FALSE, index |-> -1, updates |-> 0]

\* itertools.combinations(pool, 2)
RECURSIVE Combinations2(_)
Combinations2(pool) ==
    IF Len(pool) < 2 THEN <<>>
    ELSE [i \in 1 .. Len(pool) - 1 |-> <<pool[1], pool[i + 1]>>] \o Combinations2(Tail(pool))

\* the outcomes of random.shuffle(seq)
Shuffles(seq) ==
    {t \in [1 .. Len(seq) -> Range(seq)] : \A i, j \in 1 .. Len(seq) : i # j => t[i] # t[j]}

\* "Prevent double voting on same comparison"
AlreadyVotedNever(S) == FALSE

AlreadyVoted(S) == S.last_voted_comparison_2 = S.blind_test_2_comparison_count

\* the vote is recorded: one update_elo_ratings call, save_user_vote unless the
\* update raised, the result appended, the count advanced, st.rerun()
RecordVote(S, D, current_comparison, winner, loser, db_ok) ==
    [RunResult(
         [S EXCEPT !.last_voted_comparison_2 = current_comparison,
                   !.blind_test_2_current_pair = NoPair,
                   !.force_regenerate_2 = TRUE,
                   !.blind_test_2_results_history =
                       Append(@, [comparison_num |-> current_comparison + 1,
                                  winner |-> winner, loser |-> loser]),
                   !.blind_test_2_comparison_count = current_comparison + 1,
                   !.show_final_results_2 =
                       IF current_comparison + 1 >= S.blind_test_2_max_comparisons
                       THEN TRUE ELSE @],
         [D EXCEPT !.update_calls = @ + 1,
                   !.save_calls = IF db_ok THEN @ + 1 ELSE @],
         "rerun")
     EXCEPT !.handler = TRUE, !.index = current_comparison, !.updates = 1]

handle_vote_2(S, D, choice, db_ok) ==
    IF AlreadyVoted(S)
    THEN [RunResult(S, D, "comparison")
          EXCEPT !.handler = TRUE, !.index = S.blind_test_2_comparison_count]
    ELSE IF choice = "A"
    THEN RecordVote(S, D, S.blind_test_2_comparison_count,
                    S.blind_test_2_current_pair.provider_a,
                    S.blind_test_2_current_pair.provider_b, db_ok)
    ELSE RecordVote(S, D, S.blind_test_2_comparison_count,
                    S.blind_test_2_current_pair.provider_b,
                    S.blind_test_2_current_pair.provider_a, db_ok)

reset_blind_test_2_keeps_history(S) ==
    [S EXCEPT !.blind_test_2_setup_complete = FALSE,
              !.blind_test_2_current_pair = NoPair,
              !.blind_test_2_comparison_count = 0,
              !.show_final_results_2 = FALSE,
              !.blind_test_2_final_competitors = <<>>,
              !.blind_test_2_comparison_pairs = <<>>,
              !.blind_test_2_pair_index = 0,
              !.blind_test_2_locale_filter = "US"]

reset_blind_test_2(S) ==
    [S EXCEPT !.blind_test_2_setup_complete = FALSE,
              !.blind_test_2_current_pair = NoPair,
              !.blind_test_2_comparison_count = 0,
              !.blind_test_2_results_history = <<>>,
              !.show_final_results_2 = FALSE,
              !.blind_test_2_final_competitors = <<>>,
              !.blind_test_2_comparison_pairs = <<>>,
              !.blind_test_2_pair_index = 0,
              !.blind_test_2_locale_filter = "US"]

\* the samples stored under the other label
PairSamplesSwapped(sample_a, sample_b, provider_a, provider_b, voice_a, voice_b, comparison_id) ==
    [kind |-> "pair", sample_a |-> sample_b, sample_b |-> sample_a,
     provider_a |-> provider_a, provider_b |-> provider_b,
     voice_a |-> voice_a, voice_b |-> voice_b, comparison_id |-> comparison_id]

Pair(sample_a, sample_b, provider_a, provider_b, voice_a, voice_b, comparison_id) ==
    [kind |-> "pair", sample_a |-> sample_a, sample_b |-> sample_b,
     provider_a |-> provider_a, provider_b |-> provider_b,
     voice_a |-> voice_a, voice_b |-> voice_b, comparison_id |-> comparison_id]

\* the end of generate_next_comparison_2: no voice aborts the run, failed
\* samples store the error pair, else the pair is stored in random A/B order
StoreComparison(S1, D, a_id, b_id, a_voice, b_voice, comparison_index, samples_ok, a_is_first) ==
    IF a_voice = "" \/ b_voice = ""
    THEN RunResult(S1, D, "message")
    ELSE IF ~samples_ok
    THEN RunResult([S1 EXCEPT !.blind_test_2_current_pair = ErrorPair], D, "loading")
    ELSE RunResult(
             [S1 EXCEPT !.blind_test_2_current_pair =
                  IF a_is_first
                  THEN Pair(a_id, b_id, a_id, b_id, a_voice, b_voice, comparison_index)
                  ELSE Pair(b_id, a_id, b_id, a_id, b_voice, a_voice, comparison_index)],
             D, "loading")

\* the competitors are comparison_pairs[pair_index]; the index advances
GenerateForPair(S0, D, pairs, pair_index, samples_ok, a_is_first) ==
    StoreComparison(
        [S0 EXCEPT !.blind_test_2_comparison_pairs = pairs,
                   !.blind_test_2_pair_index = pair_index + 1],
        D, pairs[pair_index + 1][1], pairs[pair_index + 1][2],
        RankedVoice(pairs[pair_index + 1][1], S0.blind_test_2_gender_filter,
                    S0.blind_test_2_locale_filter, S0.blind_test_2_comparison_count),
        RankedVoice(pairs[pair_index + 1][2], S0.blind_test_2_gender_filter,
                    S0.blind_test_2_locale_filter, S0.blind_test_2_comparison_count),
        S0.blind_test_2_comparison_count, samples_ok, a_is_first)

\* shuffled: the outcome of random.shuffle when the pairs are exhausted;
\* samples_ok: both samples came back successful; a_is_first: random.random() > 0.5
generate_next_comparison_2(S, D, shuffled, samples_ok, a_is_first) ==
    IF S.blind_test_2_comparison_count >= S.blind_test_2_max_comparisons
    THEN RunResult([S EXCEPT !.show_final_results_2 = TRUE], D, "rerun")
    ELSE IF S.blind_test_2_comparison_pairs = <<>>
    THEN RunResult([S EXCEPT !.blind_test_2_current_pair = NoPair], D, "message")
    ELSE IF S.blind_test_2_pair_index >= Len(S.blind_test_2_comparison_pairs)
    THEN GenerateForPair([S EXCEPT !.blind_test_2_current_pair = NoPair], D,
                         shuffled, 0, samples_ok, a_is_first)
    ELSE GenerateForPair([S EXCEPT !.blind_test_2_current_pair = NoPair], D,
                         S.blind_test_2_comparison_pairs, S.blind_test_2_pair_index,
                         samples_ok, a_is_first)

\* both "Start New Test" buttons call reset_blind_test_2
display_final_results_2(S, D, trigger) ==
    IF trigger = "start_new_test_2"
    THEN RunResult(reset_blind_test_2(S), D, "rerun")
    ELSE RunResult(S, D, "final")

\* the pair is not the one of the current comparison count
StalePair(S) ==
    /\ S.blind_test_2_current_pair.kind = "pair"
    /\ S.blind_test_2_current_pair.comparison_id # S.blind_test_2_comparison_count

\* in: the inputs of the run (widget values, random and network outcomes)
display_blind_test_2_comparison(S, D, trigger, in) ==
    IF S.show_final_results_2
    THEN display_final_results_2([S EXCEPT !.blind_test_2_current_pair = NoPair], D, trigger)
    ELSE IF S.blind_test_2_current_pair = NoPair \/ S.force_regenerate_2
    THEN generate_next_comparison_2(
             [S EXCEPT !.force_regenerate_2 = FALSE, !.blind_test_2_current_pair = NoPair],
             D, in.shuffled, in.samples_ok, in.a_is_first)
    ELSE IF StalePair(S)
    THEN generate_next_comparison_2([S EXCEPT !.blind_test_2_current_pair = NoPair],
             D, in.shuffled, in.samples_ok, in.a_is_first)
    ELSE IF S.blind_test_2_current_pair.kind = "error"
    THEN IF trigger = "retry_2"
         THEN RunResult([S EXCEPT !.blind_test_2_current_pair = NoPair], D, "rerun")
         ELSE RunResult(S, D, "error")
    ELSE IF trigger = "vote_a_2" THEN handle_vote_2(S, D, "A", in.db_ok)
    ELSE IF trigger = "vote_b_2" THEN handle_vote_2(S, D, "B", in.db_ok)
    ELSE IF trigger = "end_test_2"
    THEN RunResult([S EXCEPT !.show_final_results_2 = TRUE,
                             !.blind_test_2_current_pair = NoPair], D, "rerun")
    ELSE RunResult(S, D, "comparison")

\* the widgets write the selection, the slider and the radio into the session;
\* "Start Voice Battle" is enabled by can_start; in.all_pairs is the shuffled
\* list of itertools.combinations(selected_pool, 2)
display_blind_test_2_setup(S, D, trigger, in) ==
    IF trigger = "start_battle_2" /\ Len(in.selected_competitors) >= 2
    THEN RunResult(
             [S EXCEPT !.blind_test_2_selected_competitors = in.selected_competitors,
                       !.blind_test_2_max_comparisons = in.max_comparisons,
                       !.blind_test_2_gender_filter = in.gender,
                       !.blind_test_2_locale_filter = "US",
                       !.blind_test_2_final_competitors = in.selected_competitors,
                       !.blind_test_2_comparison_pairs = in.all_pairs,
                       !.blind_test_2_pair_index = 0,
                       !.blind_test_2_setup_complete = TRUE,
                       !.blind_test_2_comparison_count = 0,
                       !.blind_test_2_results_history = <<>>,
                       !.blind_test_2_current_pair = NoPair],
             D, "rerun")
    ELSE RunResult(S, D, "setup")

test_in_progress(S) ==
    \/ S.blind_test_2_setup_complete
    \/ S.blind_test_2_comparison_count > 0
    \/ S.blind_test_2_current_pair # NoPair
    \/ Len(S.blind_test_2_results_history) > 0

blind_test_2_page(S, D, trigger, in) ==
    IF S.show_final_results_2 THEN display_final_results_2(S, D, trigger)
    ELSE IF test_in_progress(S) THEN display_blind_test_2_comparison(S, D, trigger, in)
    ELSE display_blind_test_2_setup(S, D, trigger, in)

NoRun == [handler |-> FALSE, index |-> -1, updates |-> 0, fresh |-> FALSE, repeated |-> FALSE,
          choice |-> ""]

NoStreak == [index |-> -1, updates |-> 0]

NoShownVotes == [clicks |-> 0, updates |-> 0]

InitUI ==
    /\ ss = InitSession
    /\ db = InitStore
    /\ shown = "setup"
    /\ run = NoRun
    /\ voteStreak = NoStreak
    /\ shownVotes = NoShownVotes
    /\ tests = 0
    /\ sampleFailures = 0
    /\ storeFailures = 0

(***************************************************************************)
(* N-way blind test (generate_blind_test_samples, display_blind_test_samples,*)
(* handle_blind_test_vote).  The store is seen through the calls it gets.  *)
(***************************************************************************)
BlindProviders == {"murf_falcon_oct23", "deepgram", "openai", "cartesia_sonic2"}

NoBlindVote == [store_ok |-> TRUE, updates |-> <<>>, saves |-> <<>>]

InitBlind ==
    /\ blind_test_samples = <<>>
    /\ blind_test_voted = FALSE
    /\ blind_test_vote_choice = 0
    /\ blindVote = NoBlindVote
    /\ blindTests = 0

\* the sequences of distinct providers: the successful results after random.shuffle
ShuffledResults ==
    UNION {{t \in [1 .. n -> BlindProviders] : \A i, j \in 1 .. n : i # j => t[i] # t[j]} :
           n \in 0 .. Cardinality(BlindProviders)}

\* fewer than two successful samples: nothing to vote on
generate_blind_test_samples(results) ==
    /\ blindTests < MaxBlindTests
    /\ blind_test_samples = <<>>
    /\ blindTests' = blindTests + 1
    /\ IF Len(results) < 2
       THEN /\ blind_test_samples' = <<>>
            /\ UNCHANGED <<blind_test_voted, blind_test_vote_choice>>
       ELSE /\ blind_test_samples' = results
            /\ blind_test_voted' = FALSE
            /\ blind_test_vote_choice' = 0
    /\ UNCHANGED <<blindVote, ElseThanBlind>>

\* r for r in samples if r.blind_label != selected_label
Losers(samples, selected) ==
    SelectSeq(samples, LAMBDA provider : provider # samples[selected])

\* the update_elo_ratings calls of handle_blind_test_vote, one per loser; none
\* when get_elo_rating raises
UpdateCalls(winner, losers, store_ok) ==
    IF store_ok THEN [i \in 1 .. Len(losers) |-> <<winner, losers[i]>>] ELSE <<>>

\* "Submit Vote": one handle_blind_test_vote per loser with save_vote=False, then
\* one more against losers[0] with save_vote=True
SubmitVoteCalls(winner, losers, store_ok) ==
    IF losers = <<>> THEN NoBlindVote
    ELSE [store_ok |-> store_ok,
          updates  |-> UpdateCalls(winner, losers, store_ok)
                           \o UpdateCalls(winner, <<losers[1]>>, store_ok),
          saves    |-> UpdateCalls(winner, <<losers[1]>>, store_ok)]

SubmitVote(selected, store_ok) ==
    /\ ~blind_test_voted
    /\ selected \in 1 .. Len(blind_test_samples)
    /\ blind_test_vote_choice' = selected
    /\ blind_test_voted' = TRUE
    /\ blindVote' = SubmitVoteCalls(blind_test_samples[selected],
                                    Losers(blind_test_samples, selected), store_ok)
    /\ UNCHANGED <<blind_test_samples, blindTests, ElseThanBlind>>

StartNewBlindTest ==
    /\ blind_test_samples # <<>>
    /\ blind_test_samples' = <<>>
    /\ blind_test_voted' = FALSE
    /\ blind_test_vote_choice' = 0
    /\ UNCHANGED <<blindVote, blindTests, ElseThanBlind>>

NextBlind ==
    \/ \E results \in ShuffledResults : generate_blind_test_samples(results)
    \/ \E selected \in 1 .. Cardinality(BlindProviders), store_ok \in BOOLEAN :
           SubmitVote(selected, store_ok)
    \/ StartNewBlindTest

\* the Leaderboard page has not been opened
NoBoard == [configured_providers |-> <<>>, votes |-> <<>>, rows |-> <<>>]

InitBoard == leaderboard = NoBoard /\ leaderboard_data = <<>>

\* no quick test run yet: st.session_state.quick_test_results is None (the
\* empty list stands for it: the results are stored only when there are some)
NoQuick == [providers |-> <<>>, running |-> FALSE, i |-> 0, attempts |-> <<>>,
            results |-> <<>>, progress |-> <<>>, errors |-> <<>>,
            quick_test_results |-> <<>>]

InitQuick == quick_test = NoQuick

\* the variables named by api_key_env in the registry
EnvVarNames ==
    {"MURF_API_KEY", "MURF_DEV_API_KEY", "DEEPGRAM_API_KEY", "ELEVENLABS_API_KEY",
     "OPENAI_API_KEY", "CARTESIA_API_KEY", "SARVAM_API_KEY"}

\* get_api_key was not called yet
NoKeyCall == [provider |-> "", raised |-> FALSE, key |-> ""]

\* validate_config was not called yet
NoStatus == [called |-> FALSE, configured |-> {}, configured_count |-> 0, valid |-> FALSE]

\* a process started with none of the variables set
InitConfig ==
    /\ environ = [v \in EnvVarNames |-> ""]
    /\ key_call = NoKeyCall
    /\ config_status = NoStatus

Tasks == 1 .. MaxTasks

\* no generate_speech call is under way
InitTasks ==
    tasks = [pc |-> [t \in Tasks |-> "idle"], voice |-> [t \in Tasks |-> ""], fetch_calls |-> 0]

(***************************************************************************)
(* The adapters of tts_providers.py: one instance, made by the factory,    *)
(* and the last generate_speech call on it.  A request is the length of    *)
(* its text and its voice; the network is seen through the outcome of each *)
(* request sent.                                                           *)
(***************************************************************************)
AdapterIds == {"murf_falcon_oct23", "deepgram", "cartesia_sonic2", "elevenlabs_flash"}

ElevenLabsIds == {"elevenlabs_flash", "elevenlabs_v3"}

\* the keys of ElevenLabsFlashTTSProvider.fallback_voice_id_map
FallbackVoiceIdMap ==
    {"Laura", "Jessica", "Liam", "Elizabeth", "Shelley", "Dan", "Nathaniel"}

\* lengths of request.text around the max_chars of the registry
TextLengths ==
    {0} \cup {ShippedRegistry[p].max_chars + d : p \in AdapterIds, d \in 0 .. MaxExcess}

\* the voices a request may name: voices of the registry, and one of no provider
RequestVoices ==
    {"en-US-alina", "aura-asteria-en", "British Lady", "Laura", "Jarnathan", "nova"}

\* what the network does with a request: it raises, or it answers with a status
NetOutcomes ==
    {"timeout", "connection_error", "status_500", "status_404", "status_200",
     "status_200_empty"}

\* the voices of the ElevenLabs account: none, or the ones of the registry
Accounts == {{}, {"Laura", "Liam", "Jarnathan"}}

\* the answers to the voices request of a new ElevenLabs instance
PrefetchOutcomes(A) ==
    IF A.provider_id \in ElevenLabsIds /\ ~A.voices_fetched
    THEN {"status_200", "status_500", "timeout"}
    ELSE {""}

AccountsSeen(prefetch) == IF prefetch = "status_200" THEN Accounts ELSE {{}}

\* after a 404: the voices request timed out, the voices list has no voice of
\* the requested name, or the retry with the listed id got audio, an empty
\* body, or timed out
RetryOutcomes(A, net) ==
    IF A.provider_id \in ElevenLabsIds /\ net = "status_404"
    THEN {"voices_timeout", "no_match", "retry_200", "retry_200_empty", "retry_timeout"}
    ELSE {""}

\* the retries that send the synthesis request a second time
Retried == {"retry_200", "retry_200_empty", "retry_timeout"}

NoAdapter == [provider_id |-> "", voices_fetched |-> FALSE, voice_id_map |-> {}]

NoCall ==
    [provider_id |-> "", text_len |-> 0, voice |-> "", valid |-> FALSE, reason |-> "",
     events |-> <<>>, net |-> "", audio |-> FALSE, raised |-> FALSE, success |-> FALSE,
     error_message |-> "", file_size_bytes |-> 0, timeline |-> <<>>, timed_out |-> FALSE,
     voice_id |-> ""]

NoPing == [provider_id |-> "", head |-> "", get |-> "", raised |-> FALSE, latency_ms |-> 0]

InitAdapter ==
    /\ adapter = NoAdapter
    /\ call = NoCall
    /\ voices_requests = [p \in AdapterIds |-> 0]
    /\ ping = NoPing

\* TTSProviderFactory.create_provider: a new instance
create_provider(provider_id) ==
    /\ adapter' = [provider_id |-> provider_id, voices_fetched |-> FALSE,
                   voice_id_map |-> IF provider_id \in CartesiaIds
                                    THEN CartesiaVoiceIdMap ELSE {}]
    /\ call' = NoCall
    /\ UNCHANGED <<voices_requests, ping>>
    /\ UNCHANGED ElseThanAdapter

\* the voice checked before the length
validate_request_voice_first(provider_id, text_len, voice) ==
    IF voice \notin TTS_PROVIDERS[provider_id].supported_voices
    THEN <<FALSE, "Voice not supported">>
    ELSE IF text_len > TTS_PROVIDERS[provider_id].max_chars
    THEN <<FALSE, "Text exceeds maximum length">>
    ELSE <<TRUE, "">>

\* the length is checked first, then the voice
validate_request(provider_id, text_len, voice) ==
    IF text_len > TTS_PROVIDERS[provider_id].max_chars
    THEN <<FALSE, "Text exceeds maximum length">>
    ELSE IF voice \notin TTS_PROVIDERS[provider_id].supported_voices
    THEN <<FALSE, "Voice not supported">>
    ELSE <<TRUE, "">>

TTSResult(success, error_message, file_size_bytes) ==
    [raised |-> FALSE, success |-> success, error_message |-> error_message,
     file_size_bytes |-> file_size_bytes]

\* the exception a request ends with, "" when the server answers
RaisedBy(net) ==
    CASE net = "timeout" -> "asyncio.TimeoutError"
      [] net = "connection_error" -> "aiohttp.ClientError"
      [] OTHER -> ""

\* except asyncio.TimeoutError / except Exception around the request
Handled(exception, on_response) ==
    IF exception = "asyncio.TimeoutError" THEN TTSResult(FALSE, "Request timeout", 0)
    ELSE IF exception # "" THEN TTSResult(FALSE, "Error", 0)
    ELSE on_response

\* len(await response.read()): one byte stands for an audio body
BodyLen(net) == IF net = "status_200" THEN 1 ELSE 0

\* Murf, Deepgram, Cartesia: status 200 is a success with the body as audio
PostResult(net) ==
    Handled(RaisedBy(net),
            IF net \in {"status_200", "status_200_empty"}
            THEN TTSResult(TRUE, "", BodyLen(net))
            ELSE TTSResult(FALSE, "API Error", 0))

\* ElevenLabs: an empty body is an error; 404 fetches the voices and retries
ElevenLabsPostResult(net, retry) ==
    Handled(RaisedBy(net),
            CASE net = "status_200" -> TTSResult(TRUE, "", BodyLen(net))
              [] net = "status_200_empty" ->
                     TTSResult(FALSE, "Empty audio response from API", 0)
              [] net = "status_404" ->
                     IF retry = "retry_200" THEN TTSResult(TRUE, "", BodyLen("status_200"))
                     ELSE TTSResult(FALSE, "Voice not found in your account", 0)
              [] OTHER -> TTSResult(FALSE, "API Error", 0))

ElevenLabsPostEvents(net, retry) ==
    IF net # "status_404" THEN <<"POST">>
    ELSE IF retry \in Retried THEN <<"POST", "GET voices", "POST">>
    ELSE <<"POST", "GET voices">>

\* the request, the time.time() the reported latency_ms ends at, and the read
\* of the body, in the order of the code
PostTimeline(net) ==
    IF RaisedBy(net) # "" THEN <<"POST", "latency_end">>
    ELSE <<"POST", "latency_end", "read">>

ElevenLabsPostTimeline(net, retry) ==
    IF net # "status_404" THEN PostTimeline(net)
    ELSE IF retry = "retry_200" THEN <<"POST", "GET voices", "POST", "read", "latency_end">>
    ELSE IF retry = "retry_200_empty"
    THEN <<"POST", "latency_end", "GET voices", "POST", "read", "read">>
    ELSE IF retry = "retry_timeout" THEN <<"POST", "latency_end", "GET voices", "POST", "read">>
    ELSE <<"POST", "latency_end", "GET voices", "read">>

\* _fetch_voices_from_api: the account's voices, else the fallback ids
FetchedVoiceIdMap(prefetch, account) ==
    IF prefetch = "status_200" /\ account # {} THEN account ELSE FallbackVoiceIdMap

AdapterAfter(A, prefetch, account) ==
    IF A.provider_id \in ElevenLabsIds /\ ~A.voices_fetched
    THEN [A EXCEPT !.voices_fetched = TRUE,
                   !.voice_id_map = FetchedVoiceIdMap(prefetch, account)]
    ELSE A

\* the requests sent before validate_request
EventsBefore(A) ==
    IF A.provider_id \in ElevenLabsIds /\ ~A.voices_fetched THEN <<"GET voices">> ELSE <<>>

\* the server answered the request, or its retry, with audio
Synthesised(net, retry) == net = "status_200" \/ (net = "status_404" /\ retry = "retry_200")

\* a voice without an id gets the id of the first fallback voice
resolve_voice_id_or_default(A, voice) ==
    IF A.provider_id \in CartesiaIds
    THEN IF voice \in A.voice_id_map THEN voice ELSE "Conversational Lady"
    ELSE IF A.provider_id \in ElevenLabsIds
    THEN IF voice \in A.voice_id_map \/ voice \in FallbackVoiceIdMap THEN voice ELSE "Laura"
    ELSE voice

\* the voice whose vendor id the synthesis request carries, "" when the name has
\* none: Cartesia defaults to the id of "Conversational Lady", ElevenLabs looks
\* in the fetched ids and then in the fallback ids, the others send the name
resolve_voice_id(A, voice) ==
    IF A.provider_id \in CartesiaIds
    THEN IF voice \in A.voice_id_map THEN voice ELSE "Conversational Lady"
    ELSE IF A.provider_id \in ElevenLabsIds
    THEN IF voice \in A.voice_id_map \/ voice \in FallbackVoiceIdMap THEN voice ELSE ""
    ELSE voice

\* a request of the call ran into its timeout
TimedOut(prefetch, net, retry) ==
    \/ prefetch = "timeout"
    \/ net = "timeout"
    \/ retry \in {"voices_timeout", "retry_timeout"}

Call(A, text_len, voice, validation, events, timeline, prefetch, net, retry, id, result) ==
    [provider_id |-> A.provider_id, text_len |-> text_len, voice |-> voice,
     valid |-> validation[1], reason |-> validation[2], events |-> events, net |-> net,
     audio |-> Synthesised(net, retry),
     raised |-> result.raised, success |-> result.success,
     error_message |-> result.error_message,
     file_size_bytes |-> result.file_size_bytes,
     timeline |-> <<"start_time">> \o timeline,
     timed_out |-> TimedOut(prefetch, net, retry),
     voice_id |-> id]

\* after the validation: the voice id is resolved, then the request is sent
AfterValidation(A1, before, text_len, voice, validation, prefetch, net, retry) ==
    IF ~validation[1]
    THEN Call(A1, text_len, voice, validation, before \o <<"validate_request">>,
              before \o <<"validate_request">>, prefetch, "", "", "",
              TTSResult(FALSE, validation[2], 0))
    ELSE IF A1.provider_id \in ElevenLabsIds
    THEN IF resolve_voice_id(A1, voice) = ""
         THEN Call(A1, text_len, voice, validation, before \o <<"validate_request">>,
                   before \o <<"validate_request">>, prefetch, "", "", "",
                   TTSResult(FALSE, "Voice not found in your ElevenLabs account", 0))
         ELSE Call(A1, text_len, voice, validation,
                   before \o <<"validate_request">> \o ElevenLabsPostEvents(net, retry),
                   before \o <<"validate_request">> \o ElevenLabsPostTimeline(net, retry),
                   prefetch, net, retry, resolve_voice_id(A1, voice),
                   ElevenLabsPostResult(net, retry))
    ELSE Call(A1, text_len, voice, validation, before \o <<"validate_request", "POST">>,
              before \o <<"validate_request">> \o PostTimeline(net),
              prefetch, net, retry, resolve_voice_id(A1, voice), PostResult(net))

CountOf(seq, e) == Cardinality({i \in 1 .. Len(seq) : seq[i] = e})

\* the voices-list requests of the process so far, with those of a call added
VoicesRequested(requests, c) ==
    [requests EXCEPT ![c.provider_id] = @ + CountOf(c.events, "GET voices")]

Requested(c) ==
    /\ VoicesRequested(voices_requests, c)[c.provider_id] <= MaxVoicesRequests
    /\ call' = c
    /\ voices_requests' = VoicesRequested(voices_requests, c)

\* prefetch, account: the answer to the voices request of a new ElevenLabs
\* instance; net: the outcome of the synthesis request; retry: what follows a
\* 404 of ElevenLabs
generate_speech(text_len, voice, prefetch, account, net, retry) ==
    /\ adapter # NoAdapter
    /\ adapter' = AdapterAfter(adapter, prefetch, account)
    /\ Requested(AfterValidation(AdapterAfter(adapter, prefetch, account),
                                 EventsBefore(adapter), text_len, voice,
                                 validate_request(adapter.provider_id, text_len, voice),
                                 prefetch, net, retry))
    /\ UNCHANGED <<ping, ElseThanAdapter>>

NextAdapter ==
    \/ \E provider_id \in AdapterIds : create_provider(provider_id)
    \/ \E text_len \in TextLengths, voice \in RequestVoices, net \in NetOutcomes,
          prefetch \in PrefetchOutcomes(adapter) :
           \E account \in AccountsSeen(prefetch), retry \in RetryOutcomes(adapter, net) :
               generate_speech(text_len, voice, prefetch, account, net, retry)

(***************************************************************************)
(* Voice selection on the Blind Test page (display_blind_test_setup,       *)
(* generate_next_comparison) and on the Falcon vs Zeroshot page            *)
(* (display_fvs_setup, generate_fvs_comparison).  The registry is a        *)
(* configuration: the shipped one, or one whose descriptor of a provider   *)
(* supports fewer voices or describes fewer voices.                        *)
(***************************************************************************)
Pages == {"Unranked Blind Test", "Ranked Blind Test", "Falcon vs Zeroshot"}

Genders == {"female", "male"}

\* the voice_info entries whose id is in keys, in insertion order
RestrictInfo(voice_info, keys) == SelectSeq(voice_info, LAMBDA info : info.id \in keys)

\* the shipped registry with the descriptor of one provider narrowed
NarrowedSupport(p) ==
    {[ShippedRegistry EXCEPT ![p].supported_voices = supported] :
        supported \in SUBSET ShippedRegistry[p].supported_voices}

NarrowedInfo(p) ==
    {[ShippedRegistry EXCEPT ![p].voice_info = RestrictInfo(ShippedRegistry[p].voice_info, keys)] :
        keys \in SUBSET ShippedRegistry[p].supported_voices}

Registries == UNION {NarrowedSupport(p) \cup NarrowedInfo(p) : p \in ProviderIds}

\* the Murf provider of the Blind Test page
MurfProviderId == "murf_falcon_oct23"

\* [(v, info) for v, info in voice_info.items() if info.gender == gender]
VoicesOfGender(provider_id, gender) ==
    VoiceIdsOf(SelectSeq(TTS_PROVIDERS[provider_id].voice_info,
                         LAMBDA info : info.gender = gender))

\* seq[index % len(seq)]
At(seq, index) == seq[(index % Len(seq)) + 1]

\* the sequences of at most MaxSelected distinct elements of a list
Selections(seq) ==
    UNION {{t \in [1 .. n -> Range(seq)] : \A i, j \in 1 .. n : i # j => t[i] # t[j]} :
           n \in 0 .. MaxSelected}

InitBlindTest ==
    [gender_filter |-> "female", murf_voice |-> "", murf_voices |-> <<>>,
     selected_competitors |-> <<>>, setup_complete |-> FALSE,
     comparison_count |-> 0, current_pair |-> NoPair]

InitFvs ==
    [gender_filter |-> "female", locale_filter |-> "None", setup_complete |-> FALSE,
     comparison_count |-> 0, current_pair |-> NoPair]

NoGen == [mode |-> "", gender |-> "", locale |-> "", competitors |-> {}, stored |-> FALSE]

Gen(mode, gender, locale, competitors, stored) ==
    [mode |-> mode, gender |-> gender, locale |-> locale, competitors |-> competitors,
     stored |-> stored]

InitVoicePages ==
    /\ blind_test = InitBlindTest
    /\ fvs = InitFvs
    /\ chosen = {}
    /\ lastGen = NoGen

\* the single voice after the gender radio: reset to the first voice of a changed
\* gender, and to the first voice of the gender when it is not one of them
SetupMurfVoice(B, new_gender, filtered) ==
    IF filtered = <<>> THEN B.murf_voice
    ELSE IF new_gender # B.gender_filter THEN filtered[1]
    ELSE IF B.murf_voice \notin Range(filtered) THEN filtered[1]
    ELSE B.murf_voice

\* the multiselect is rendered only when the gender has voices; an empty
\* selection defaults to the first voice
SetupMurfVoices(B, filtered, selected) ==
    IF filtered = <<>> THEN B.murf_voices
    ELSE IF selected = <<>> THEN <<filtered[1]>>
    ELSE selected

SetupSession(B, new_gender, filtered, selected, competitor) ==
    [B EXCEPT !.gender_filter = new_gender,
              !.murf_voices = SetupMurfVoices(B, filtered, selected),
              !.murf_voice = IF filtered = <<>>
                             THEN SetupMurfVoice(B, new_gender, filtered)
                             ELSE SetupMurfVoices(B, filtered, selected)[1],
              !.selected_competitors = <<competitor>>]

\* one script run of the setup page with the widgets at the given values
display_blind_test_setup(new_gender, selected, competitor) ==
    /\ current_page = "Unranked Blind Test"
    /\ ~blind_test.setup_complete
    /\ selected \in Selections(VoicesOfGender(MurfProviderId, new_gender))
    /\ blind_test' = SetupSession(blind_test, new_gender,
                                  VoicesOfGender(MurfProviderId, new_gender),
                                  selected, competitor)
    /\ UNCHANGED <<current_page, fvs, chosen, lastGen, ss, ElseThanVoice>>

can_start(B) ==
    /\ Len(B.selected_competitors) >= 1
    /\ (B.murf_voice # "" \/ B.murf_voices # <<>>)

\* "Start Voice Battle"
StartVoiceBattle ==
    /\ current_page = "Unranked Blind Test"
    /\ ~blind_test.setup_complete
    /\ can_start(blind_test)
    /\ blind_test' = [blind_test EXCEPT !.setup_complete = TRUE,
                                        !.comparison_count = 0,
                                        !.current_pair = NoPair]
    /\ UNCHANGED <<current_page, fvs, chosen, lastGen, ss, ElseThanVoice>>

\* the Murf voice of the comparison: the single voice when no voices are selected,
\* else the selected voices in turn; an unsupported voice is replaced by a
\* supported selected one, else by the first voice_info entry of the gender
UnrankedMurfVoice(B, filtered, supported, comparison_index) ==
    IF B.murf_voices = <<>>
    THEN IF (B.murf_voice = "" \/ B.murf_voice \notin supported) /\ filtered # <<>>
         THEN filtered[1]
         ELSE B.murf_voice
    ELSE IF At(B.murf_voices, comparison_index) \in supported
    THEN At(B.murf_voices, comparison_index)
    ELSE IF SelectSeq(B.murf_voices, LAMBDA v : v \in supported) # <<>>
    THEN At(SelectSeq(B.murf_voices, LAMBDA v : v \in supported), comparison_index)
    ELSE IF filtered # <<>> THEN filtered[1]
    ELSE At(B.murf_voices, comparison_index)

\* the replacement is written back to the session
MurfSessionAfter(B, filtered, supported, comparison_index, murf_voice) ==
    IF B.murf_voices = <<>>
    THEN [B EXCEPT !.murf_voice = murf_voice]
    ELSE IF /\ At(B.murf_voices, comparison_index) \notin supported
            /\ SelectSeq(B.murf_voices, LAMBDA v : v \in supported) = <<>>
            /\ filtered # <<>>
    THEN [B EXCEPT !.murf_voices = <<murf_voice>>]
    ELSE B

\* "Use the actual gender from the voice, not just the filter"
EffectiveGender(murf_voice, gender_filter) ==
    IF VoiceInfoGet(MurfProviderId, murf_voice).gender # "unknown"
    THEN VoiceInfoGet(MurfProviderId, murf_voice).gender
    ELSE gender_filter

\* the competitor's candidates: supported voices of the gender, for Cartesia
\* only keys of voice_id_map; the list is filtered by gender again before use
UnrankedCandidates(competitor_id, gender) ==
    SelectSeq(
        OrElse(SelectSeq(get_voices_by_gender(competitor_id, gender),
                         LAMBDA v :
                             /\ v \in TTS_PROVIDERS[competitor_id].supported_voices
                             /\ (competitor_id \in CartesiaIds =>
                                    /\ v \in CartesiaVoiceIdMap
                                    /\ VoiceInfoGet(competitor_id, v).gender = gender)),
               SelectSeq(VoicesOfGender(competitor_id, gender),
                         LAMBDA v : v \in TTS_PROVIDERS[competitor_id].supported_voices)),
        LAMBDA v : VoiceInfoGet(competitor_id, v).gender = gender)

\* random.choice(competitor_voices); a Cartesia voice outside voice_id_map is
\* replaced by one inside it; "" when the generation stops with an error
UnrankedCompetitorVoice(competitor_id, voices, pick) ==
    IF voices = <<>> THEN ""
    ELSE IF competitor_id \in CartesiaIds /\ At(voices, pick) \notin CartesiaVoiceIdMap
    THEN IF InVoiceIdMap(voices) = <<>> THEN ""
         ELSE At(InVoiceIdMap(voices), pick % Len(voices))
    ELSE At(voices, pick)

\* an adapter answers success only to a request that passes validate_request
SamplesSucceed(provider_a, voice_a, provider_b, voice_b, samples_ok) ==
    /\ samples_ok
    /\ voice_a \in TTS_PROVIDERS[provider_a].supported_voices
    /\ voice_b \in TTS_PROVIDERS[provider_b].supported_voices

GenResult(session, voices) == [session |-> session, chosen |-> voices]

\* the end of generate_next_comparison: no competitor voice stops the run with
\* the pair None, failed samples store the error pair, else the pair is stored
UnrankedStore(B1, murf_voice, competitor_id, competitor_voice, samples_ok, murf_is_a) ==
    IF competitor_voice = ""
    THEN GenResult([B1 EXCEPT !.current_pair = NoPair], {})
    ELSE GenResult(
             [B1 EXCEPT !.current_pair =
                  IF ~SamplesSucceed(MurfProviderId, murf_voice, competitor_id,
                                     competitor_voice, samples_ok)
                  THEN ErrorPair
                  ELSE IF murf_is_a
                  THEN Pair(MurfProviderId, competitor_id, MurfProviderId, competitor_id,
                            murf_voice, competitor_voice,
                            B1.comparison_count)
                  ELSE Pair(competitor_id, MurfProviderId, competitor_id, MurfProviderId,
                            competitor_voice, murf_voice,
                            B1.comparison_count)],
             {<<MurfProviderId, murf_voice>>, <<competitor_id, competitor_voice>>})

UnrankedWithMurf(B, filtered, supported, murf_voice, pick, samples_ok, murf_is_a) ==
    UnrankedStore(
        MurfSessionAfter(B, filtered, supported, B.comparison_count, murf_voice),
        murf_voice, B.selected_competitors[1],
        UnrankedCompetitorVoice(
            B.selected_competitors[1],
            UnrankedCandidates(B.selected_competitors[1],
                               EffectiveGender(murf_voice, B.gender_filter)),
            pick),
        samples_ok, murf_is_a)

\* pick: the outcome of random.choice; samples_ok: the network answered both
\* requests; murf_is_a: random.random() > 0.5
generate_next_comparison(B, pick, samples_ok, murf_is_a) ==
    UnrankedWithMurf(
        B, VoicesOfGender(MurfProviderId, B.gender_filter),
        TTS_PROVIDERS[MurfProviderId].supported_voices,
        UnrankedMurfVoice(B, VoicesOfGender(MurfProviderId, B.gender_filter),
                          TTS_PROVIDERS[MurfProviderId].supported_voices,
                          B.comparison_count),
        pick, samples_ok, murf_is_a)

ApplyUnranked(r, request) ==
    /\ blind_test' = r.session
    /\ chosen' = r.chosen
    /\ lastGen' = [request EXCEPT !.stored = (r.session.current_pair.kind = "pair")]

\* display_blind_test_comparison with no pair, or "Retry" on the error pair
UnrankedGenerate(pick, samples_ok, murf_is_a) ==
    /\ current_page = "Unranked Blind Test"
    /\ blind_test.setup_complete
    /\ blind_test.current_pair.kind \in {"None", "error"}
    /\ ApplyUnranked(generate_next_comparison(blind_test, pick, samples_ok, murf_is_a),
                     Gen("unranked", blind_test.gender_filter, "None",
                         {blind_test.selected_competitors[1]}, FALSE))
    /\ UNCHANGED <<current_page, fvs, ss, ElseThanVoice>>

\* a vote on the pair displayed: the store is called, a failure of the store
\* is printed, and the test moves to the next comparison
handle_vote(db_ok) ==
    /\ current_page = "Unranked Blind Test"
    /\ blind_test.current_pair.kind = "pair"
    /\ blind_test.comparison_count + 1 < MaxComparisons
    /\ db.update_calls < MaxUnrankedVotes
    /\ blind_test' = [blind_test EXCEPT !.comparison_count = @ + 1,
                                        !.current_pair = NoPair]
    /\ db' = [db EXCEPT !.update_calls = @ + 1,
                        !.save_calls = IF db_ok THEN @ + 1 ELSE @]
    /\ UNCHANGED <<current_page, fvs, chosen, lastGen, ss, TTS_PROVIDERS, configVars, taskVars, eloVars, blindVars,
                   adapterVars, boardVars, quickVars, shown, run, voteStreak, shownVotes, tests,
                   sampleFailures, storeFailures>>

reset_blind_test ==
    /\ current_page = "Unranked Blind Test"
    /\ blind_test.setup_complete
    /\ blind_test' = [blind_test EXCEPT !.setup_complete = FALSE,
                                        !.current_pair = NoPair,
                                        !.comparison_count = 0]
    /\ UNCHANGED <<current_page, fvs, chosen, lastGen, ss, ElseThanVoice>>

Init ==
    /\ TTS_PROVIDERS = ShippedRegistry
    /\ InitElo
    /\ InitUI
    /\ InitBlind
    /\ current_page = "Ranked Blind Test"
    /\ InitVoicePages
    /\ InitAdapter
    /\ InitConfig
    /\ InitTasks
    /\ InitQuick
    /\ InitBoard

\* the selections of the competitors multiselect and of the slider that are tried
SelectableCompetitors ==
    {<<"murf_falcon_oct23", "deepgram">>, <<"deepgram", "cartesia_sonic2">>}

MaxComparisonsChoices == {5}

\* the run will call generate_next_comparison_2 and get past its first check
WillGenerate(S) ==
    /\ ~S.show_final_results_2
    /\ test_in_progress(S)
    /\ (S.blind_test_2_current_pair = NoPair \/ S.force_regenerate_2 \/ StalePair(S))
    /\ S.blind_test_2_comparison_count < S.blind_test_2_max_comparisons

\* the inputs of a script run that no widget of the run reads: the random and
\* network outcomes of a generation, the outcome of the store's update
InputsOf(S, votes, generates) ==
    [shuffled : IF generates /\ S.blind_test_2_pair_index >= Len(S.blind_test_2_comparison_pairs)
                THEN Shuffles(S.blind_test_2_comparison_pairs)
                ELSE {S.blind_test_2_comparison_pairs},
     samples_ok : IF generates /\ sampleFailures < MaxSampleFailures
                  THEN BOOLEAN ELSE {TRUE},
     a_is_first : IF generates THEN BOOLEAN ELSE {TRUE},
     db_ok : IF votes /\ ~generates /\ storeFailures < MaxStoreFailures
             THEN BOOLEAN ELSE {TRUE},
     selected_competitors : {<<>>}, max_comparisons : {25}, gender : {"female"},
     all_pairs : {<<>>}]

RunInputs(S, trigger) == InputsOf(S, trigger \in {"vote_a_2", "vote_b_2"}, WillGenerate(S))

\* the comparison has no record in the results history of the current test
NotYetVoted(history, index) ==
    \A i \in 1 .. Len(history) : history[i].comparison_num # index + 1

\* clicks and update calls on the comparison the browser displays
CountShownVote(base, votes, updates) ==
    IF votes
    THEN [clicks  |-> IF base.clicks < 2 THEN base.clicks + 1 ELSE 2,
          updates |-> base.updates + updates]
    ELSE base

\* the effect of a script run with result r.  A run that ends in st.rerun()
\* leaves the browser's view as it is until the next run replaces it.
ApplyRun(r, trigger, in) ==
    /\ ss' = r.ss
    /\ db' = r.db
    /\ shown' = IF r.view = "rerun" THEN shown ELSE r.view
    /\ run' = [handler |-> r.handler, index |-> r.index, updates |-> r.updates,
               fresh |-> r.handler /\ NotYetVoted(ss.blind_test_2_results_history, r.index),
               repeated |-> r.handler /\ voteStreak.index = r.index,
               choice |-> IF trigger = "vote_a_2" THEN "A"
                          ELSE IF trigger = "vote_b_2" THEN "B" ELSE ""]
    /\ voteStreak' =
           IF ~r.handler THEN voteStreak
           ELSE IF voteStreak.index = r.index
           THEN [voteStreak EXCEPT !.updates = @ + r.updates]
           ELSE [index |-> r.index, updates |-> r.updates]
    /\ shownVotes' =
           CountShownVote(IF r.view = "comparison" /\ shown # "comparison"
                          THEN NoShownVotes ELSE shownVotes,
                          trigger \in {"vote_a_2", "vote_b_2"}, r.updates)
    /\ sampleFailures' = IF in.samples_ok THEN sampleFailures ELSE sampleFailures + 1
    /\ storeFailures' = IF in.db_ok THEN storeFailures ELSE storeFailures + 1
    /\ UNCHANGED ElseThanUI

\* one run of the script, started by the widget trigger ("" for a rerun or a
\* revisit of the page)
ScriptRun(trigger, in) == ApplyRun(blind_test_2_page(ss, db, trigger, in), trigger, in)

\* st.rerun() or the user coming back to the page
RunPage ==
    /\ \E in \in RunInputs(ss, "") : ScriptRun("", in)
    /\ UNCHANGED tests

ClickVote(choice) ==
    /\ shown = "comparison"
    /\ db.update_calls < MaxVotes
    /\ \E in \in RunInputs(ss, "vote_a_2") :
           ScriptRun(IF choice = "A" THEN "vote_a_2" ELSE "vote_b_2", in)
    /\ UNCHANGED tests

ClickEndTest ==
    /\ shown = "comparison"
    /\ \E in \in RunInputs(ss, "end_test_2") : ScriptRun("end_test_2", in)
    /\ UNCHANGED tests

ClickRetry ==
    /\ shown = "error"
    /\ \E in \in RunInputs(ss, "retry_2") : ScriptRun("retry_2", in)
    /\ UNCHANGED tests

ClickStartNewTest ==
    /\ shown = "final"
    /\ \E in \in RunInputs(ss, "start_new_test_2") : ScriptRun("start_new_test_2", in)
    /\ UNCHANGED tests

\* "Start Voice Battle" with one of the given selections of competitors
StartBattle(selections) ==
    /\ shown = "setup"
    /\ tests < MaxTests
    /\ tests' = tests + 1
    /\ \E in \in RunInputs(ss, "start_battle_2"), selected \in selections,
          max_comparisons \in MaxComparisonsChoices, gender \in {"male", "female"} :
           \E all_pairs \in Shuffles(Combinations2(selected)) :
               ScriptRun("start_battle_2",
                         [in EXCEPT !.selected_competitors = selected,
                                    !.max_comparisons = max_comparisons,
                                    !.gender = gender,
                                    !.all_pairs = all_pairs])

ClickStartBattle == StartBattle(SelectableCompetitors)

Next ==
    \/ RunPage
    \/ \E choice \in {"A", "B"} : ClickVote(choice)
    \/ ClickEndTest
    \/ ClickRetry
    \/ ClickStartNewTest
    \/ ClickStartBattle

Spec == Init /\ [][Next]_vars

\* "-".join(v.split("-")[:2])
VoiceLocale(voice_id) ==
    CASE voice_id \in {"en-US-alina", "en-US-cooper"} -> "en-US"
      [] voice_id = "en-UK-hazel" -> "en-UK"
      [] OTHER -> voice_id

\* "All Locales" and the locales of the supported Falcon voices
LocaleOptions ==
    {"None"} \cup {VoiceLocale(v) : v \in TTS_PROVIDERS["murf_falcon_oct23"].supported_voices}

\* the locale selectbox and the gender radio
display_fvs_setup(locale, new_gender) ==
    /\ current_page = "Falcon vs Zeroshot"
    /\ ~fvs.setup_complete
    /\ locale \in LocaleOptions
    /\ fvs' = [fvs EXCEPT !.locale_filter = locale, !.gender_filter = new_gender]
    /\ UNCHANGED <<current_page, blind_test, chosen, lastGen, ss, ElseThanVoice>>

\* "Start Comparison"
StartComparison ==
    /\ current_page = "Falcon vs Zeroshot"
    /\ ~fvs.setup_complete
    /\ fvs' = [fvs EXCEPT !.setup_complete = TRUE, !.comparison_count = 0,
                          !.current_pair = NoPair]
    /\ UNCHANGED <<current_page, blind_test, chosen, lastGen, ss, ElseThanVoice>>

\* the Falcon voice_info entries of the gender and the locale
FvsFiltered(gender_filter, locale_filter) ==
    SelectSeq(VoicesOfGender("murf_falcon_oct23", gender_filter),
              LAMBDA v : locale_filter = "None" \/ VoiceLocale(v) = locale_filter)

\* No voice: an error and no pair.  Else the voice that random.shuffle left at
\* comparison_count % len is used for both providers; the factory knows no
\* murf_zeroshot, the Zeroshot sample is None and the error pair is stored.
FvsResult(F, filtered, shuffled_to) ==
    IF filtered = <<>>
    THEN GenResult(F, {})
    ELSE GenResult([F EXCEPT !.current_pair = ErrorPair],
                   {<<"murf_falcon_oct23", At(filtered, shuffled_to)>>,
                    <<"murf_zeroshot", At(filtered, shuffled_to)>>})

ApplyFvs(r, request) ==
    /\ fvs' = r.session
    /\ chosen' = r.chosen
    /\ lastGen' = [request EXCEPT !.stored = (r.session.current_pair.kind = "pair")]

generate_fvs_comparison(shuffled_to) ==
    /\ current_page = "Falcon vs Zeroshot"
    /\ fvs.setup_complete
    /\ fvs.current_pair.kind = "None"
    /\ ApplyFvs(FvsResult(fvs, FvsFiltered(fvs.gender_filter, fvs.locale_filter), shuffled_to),
                Gen("fvs", fvs.gender_filter, fvs.locale_filter,
                    {"murf_falcon_oct23", "murf_zeroshot"}, FALSE))
    /\ UNCHANGED <<current_page, blind_test, ss, ElseThanVoice>>

\* "Retry" on the error pair
FvsRetry ==
    /\ current_page = "Falcon vs Zeroshot"
    /\ fvs.current_pair.kind = "error"
    /\ fvs' = [fvs EXCEPT !.current_pair = NoPair]
    /\ UNCHANGED <<current_page, blind_test, chosen, lastGen, ss, ElseThanVoice>>

\* the calls of the two selectors of config.py at the head of a generation,
\* the pair being cleared
SelectVoices(provider_id, gender, locale) ==
    /\ current_page = "Ranked Blind Test"
    /\ ss.blind_test_2_current_pair.kind = "None"
    /\ chosen' = {<<provider_id, v>> :
                     v \in Range(get_voices_by_gender_and_locale(provider_id, gender, locale))
                           \cup Range(get_voices_by_gender(provider_id, gender))}
    /\ lastGen' = Gen("selector", gender, locale, {provider_id}, FALSE)
    /\ UNCHANGED <<current_page, blind_test, fvs, ss, ElseThanVoice>>

\* the ranked session set up with two competitors and a gender, at a comparison
RankedSession(competitors, gender, comparison_index) ==
    [InitSession EXCEPT !.blind_test_2_selected_competitors = competitors,
                        !.blind_test_2_final_competitors = competitors,
                        !.blind_test_2_gender_filter = gender,
                        !.blind_test_2_setup_complete = TRUE,
                        !.blind_test_2_comparison_pairs = <<competitors>>,
                        !.blind_test_2_comparison_count = comparison_index]

RankedChosen(a_id, b_id, a_voice, b_voice) ==
    IF a_voice = "" \/ b_voice = "" THEN {} ELSE {<<a_id, a_voice>>, <<b_id, b_voice>>}

ApplyRanked(r, request, voices) ==
    /\ ss' = r.ss
    /\ chosen' = voices
    /\ lastGen' = [request EXCEPT !.stored = (r.ss.blind_test_2_current_pair.kind = "pair")]

\* generate_next_comparison_2 for a session of the Ranked Blind Test page
RankedGenerate(competitors, gender, comparison_index, samples_ok, a_is_first) ==
    /\ current_page = "Ranked Blind Test"
    /\ ApplyRanked(
           generate_next_comparison_2(RankedSession(competitors, gender, comparison_index),
                                      db, <<competitors>>, samples_ok, a_is_first),
           Gen("ranked", gender, "US", {competitors[1], competitors[2]}, FALSE),
           RankedChosen(competitors[1], competitors[2],
                        RankedVoice(competitors[1], gender, "US", comparison_index),
                        RankedVoice(competitors[2], gender, "US", comparison_index)))
    /\ UNCHANGED <<current_page, blind_test, fvs, ElseThanVoice>>

NextVoice ==
    \/ \E new_gender \in Genders, competitor \in {"deepgram", "cartesia_sonic2"},
          selected \in Selections(VoiceIdsOf(ShippedRegistry[MurfProviderId].voice_info)) :
           display_blind_test_setup(new_gender, selected, competitor)
    \/ StartVoiceBattle
    \/ \E pick \in 0 .. 2, samples_ok \in BOOLEAN, murf_is_a \in BOOLEAN :
           UnrankedGenerate(pick, samples_ok, murf_is_a)
    \/ \E db_ok \in BOOLEAN : handle_vote(db_ok)
    \/ reset_blind_test
    \/ \E locale \in {"None", "en-US", "en-UK"}, new_gender \in Genders :
           display_fvs_setup(locale, new_gender)
    \/ StartComparison
    \/ \E shuffled_to \in 0 .. 2 : generate_fvs_comparison(shuffled_to)
    \/ FvsRetry
    \/ \E provider_id \in ProviderIds, gender \in Genders, locale \in {"None", "US"} :
           SelectVoices(provider_id, gender, locale)
    \/ \E competitors \in SelectableCompetitors, gender \in Genders,
          comparison_index \in 0 .. MaxComparisons - 1,
          samples_ok \in BOOLEAN, a_is_first \in BOOLEAN :
           RankedGenerate(competitors, gender, comparison_index, samples_ok, a_is_first)

InitVoice ==
    /\ TTS_PROVIDERS \in Registries
    /\ current_page \in Pages
    /\ InitElo
    /\ InitUI
    /\ InitBlind
    /\ InitVoicePages
    /\ InitAdapter
    /\ InitConfig
    /\ InitTasks
    /\ InitQuick
    /\ InitBoard

SpecVoice == InitVoice /\ [][NextVoice]_vars

\* a competitor with no supported voice of the gender, and for the ranked test
\* of the US locale
NoMatchingVoice(request, provider_id) ==
    IF request.mode = "ranked"
    THEN get_voices_by_gender_and_locale(provider_id, request.gender, request.locale) = <<>>
    ELSE get_voices_by_gender(provider_id, request.gender) = <<>>

PairHasGender(pair, gender) ==
    pair.kind = "pair" =>
        /\ VoiceInfoGet(pair.provider_a, pair.voice_a).gender = gender
        /\ VoiceInfoGet(pair.provider_b, pair.voice_b).gender = gender

C3_DoubleVoteOneUpdate ==
    /\ shownVotes.updates <= 1
    /\ (run.handler /\ run.repeated) => (run.updates = 0 /\ voteStreak.updates = 1)

\* a comparison was displayed, its vote button clicked twice, one update made
C3_Witness == shownVotes.clicks = 2 /\ shownVotes.updates = 1 /\ db.update_calls = 1

\* C4: every vote cast on a displayed comparison that was not yet voted on in
\* the current test makes exactly one update_elo_ratings call, in every test of
\* the browser session.
C4_OneUpdatePerVote == (run.handler /\ run.fresh) => run.updates = 1

\* C5: a winner picked among N > 2 samples: exactly N-1 pairwise updates, the
\* winner against each other participant exactly once.
C5_NMinusOneUpdates ==
    (blind_test_voted /\ Len(blind_test_samples) > 2 /\ blindVote.store_ok) =>
        /\ Len(blindVote.updates) = Len(blind_test_samples) - 1
        /\ \A i \in 1 .. Len(blind_test_samples) :
               i # blind_test_vote_choice =>
                   Cardinality({k \in 1 .. Len(blindVote.updates) :
                       blindVote.updates[k] =
                           <<blind_test_samples[blind_test_vote_choice], blind_test_samples[i]>>}) = 1

NextElo == \E w \in Competitors, l \in Competitors : ReplayStep(w, l)

SpecElo == Init /\ [][NextElo]_vars

\* C1: a single pairwise update leaves the sum of the two ratings unchanged,
\* up to the rounding of the two expected scores (one rounding unit each).
EloTolerance == 2 * K_FACTOR
C1_ZeroSum ==
    eloSteps > 0 =>
        Abs((eloLast.rw2 + eloLast.rl2) - (eloLast.rw + eloLast.rl)) <= EloTolerance

\* an update between unequal ratings has happened
C1_Witness == eloSteps > 0 /\ eloLast.rw # eloLast.rl /\ eloLast.rw2 > eloLast.rw

\* C2: equal ratings before the update: the winner gains exactly K/2 = 16 and
\* the loser loses exactly 16 (1000 vs 1000 gives 1016 and 984).
C2_EqualRatings ==
    (eloSteps > 0 /\ eloLast.rw = eloLast.rl) =>
        /\ eloLast.rw2 = eloLast.rw + 16 * EloScale
        /\ eloLast.rl2 = eloLast.rl - 16 * EloScale

C2_Witness ==
    /\ eloSteps > 0
    /\ eloLast.rw = 1000 * EloScale /\ eloLast.rl = 1000 * EloScale
    /\ eloLast.rw2 = 1016 * EloScale /\ eloLast.rl2 = 984 * EloScale
SpecBlind == Init /\ [][NextBlind]_vars

SpecAdapter == Init /\ [][NextAdapter]_vars

TextTooLong(c) == c.text_len > TTS_PROVIDERS[c.provider_id].max_chars

UnsupportedVoice(c) == c.voice \notin TTS_PROVIDERS[c.provider_id].supported_voices

\* C8: validate_request fails exactly when the text is longer than max_chars or
\* the voice is not in supported_voices, with the reason of the text when the text
\* is too long, else the reason of the voice; it answers (True, "") otherwise.
C8_ValidateRequest ==
    call.provider_id # "" =>
        /\ ~call.valid <=> (TextTooLong(call) \/ UnsupportedVoice(call))
        /\ TextTooLong(call) => call.reason = "Text exceeds maximum length"
        /\ (~TextTooLong(call) /\ UnsupportedVoice(call)) => call.reason = "Voice not supported"
        /\ call.valid => call.reason = ""

C8_Witness ==
    /\ call.provider_id # ""
    /\ TextTooLong(call) /\ UnsupportedVoice(call)
    /\ ~call.valid /\ call.reason = "Text exceeds maximum length"

\* C9: in generate_speech the validation comes before any network request, and a
\* request failing it is answered success=false with no network request sent.
C9_ValidationBeforeNetwork ==
    call.provider_id # "" =>
        /\ \A i \in 1 .. Len(call.events) :
               call.events[i] # "validate_request" =>
                   \E j \in 1 .. i - 1 : call.events[j] = "validate_request"
        /\ ~call.valid => (~call.success /\ call.events = <<"validate_request">>)

\* C10: generate_speech never raises, and its result has success=false unless
\* the synthesis succeeded.
C10_NeverRaises ==
    call.provider_id # "" =>
        /\ ~call.raised
        /\ call.success => (call.valid /\ call.audio)

\* C11: every result with success=true carries audio: its file_size_bytes is
\* positive and the body it returns as audio_data is not empty; a 200 answer
\* with an empty body is not a success.
C11_SuccessHasAudio ==
    call.success => (call.file_size_bytes > 0 /\ call.net # "status_200_empty")

\* C12: one generate_speech call sends the synthesis request at most once: no
\* second synthesis request follows a first one that failed.
C12_OneSynthesisAttempt == CountOf(call.events, "POST") <= 1

LastIndexOf(seq, e) ==
    IF \E i \in 1 .. Len(seq) : seq[i] = e
    THEN CHOOSE i \in 1 .. Len(seq) : seq[i] = e /\ \A j \in i + 1 .. Len(seq) : seq[j] # e
    ELSE 0

\* C13: for a successful call the latency interval starts right before the
\* synthesis request, with no other request in between, and its end timestamp
\* is taken after the body of the response has been read.
C13_LatencyInterval ==
    call.success =>
        /\ LastIndexOf(call.timeline, "read") < LastIndexOf(call.timeline, "latency_end")
        /\ \A i \in 2 .. LastIndexOf(call.timeline, "POST") - 1 :
               call.timeline[i] \notin {"GET voices", "POST"}

\* C14: when a request sent during generate_speech runs into its timeout, the
\* call returns, without raising, a success=false result whose error is the
\* timeout error.
C14_TimeoutError ==
    call.timed_out =>
        (~call.raised /\ ~call.success /\ call.error_message = "Request timeout")

\* the adapters that map a voice name to a vendor id, and the names they map
MapsVoiceNames(A) == A.provider_id \in CartesiaIds \cup ElevenLabsIds

HasMapping(A, voice) ==
    \/ voice \in A.voice_id_map
    \/ A.provider_id \in ElevenLabsIds /\ voice \in FallbackVoiceIdMap

\* C15: an adapter that maps voice names to vendor ids sends a synthesis
\* request only with the id of the requested voice; a request for a name
\* without a mapping returns a failure and sends no synthesis request.
C15_NoSubstitution ==
    (call.provider_id # "" /\ MapsVoiceNames(adapter)) =>
        /\ call.voice_id \in {"", call.voice}
        /\ ~HasMapping(adapter, call.voice) =>
               (~call.success /\ CountOf(call.events, "POST") = 0)

\* a supported voice of ElevenLabs without an id: the call fails before the request
C15_Witness ==
    /\ call.provider_id \in ElevenLabsIds
    /\ call.valid
    /\ ~HasMapping(adapter, call.voice)
    /\ ~call.success
    /\ call.voice_id = ""
    /\ CountOf(call.events, "POST") = 0

\* C16: over the generations of one process, the voices-list request is sent
\* at most once to each provider.
C16_VoicesFetchedOnce == \A p \in AdapterIds : voices_requests[p] <= 1

(***************************************************************************)
(* The locale selector of config.py as a function of its arguments: any    *)
(* provider of the registry, any gender, no locale or one of the locales   *)
(* of the voices.                                                          *)
(***************************************************************************)
Locales == {"None", "US", "UK"}

\* a call of get_voices_by_gender_and_locale; chosen holds the voices returned
CallLocaleSelector(provider_id, gender, locale) ==
    /\ chosen' = {<<provider_id, v>> :
                     v \in Range(get_voices_by_gender_and_locale(provider_id, gender, locale))}
    /\ lastGen' = Gen("locale_selector", gender, locale, {provider_id}, FALSE)
    /\ UNCHANGED <<current_page, blind_test, fvs, ss, ElseThanVoice>>

NextSelector ==
    \E provider_id \in ProviderIds, gender \in Genders, locale \in Locales :
        CallLocaleSelector(provider_id, gender, locale)

SpecSelector == InitVoice /\ [][NextSelector]_vars

\* the voice id carries the locale: en-US-..., en-UK-...
IdEncodes(voice_id, locale) ==
    \/ locale = "US" /\ HasEnUS(voice_id)
    \/ locale = "UK" /\ voice_id \in {"en-UK-hazel"}

\* the supported voices of the gender whose accent is the locale or whose id
\* encodes it
VoicesOfLocale(provider_id, gender, locale) ==
    {info.id : info \in {i \in Range(TTS_PROVIDERS[provider_id].voice_info) :
                            /\ i.gender = gender
                            /\ i.id \in TTS_PROVIDERS[provider_id].supported_voices
                            /\ (i.accent = locale \/ IdEncodes(i.id, locale))}}

\* C17: for any provider, gender and locale L, "US" or another,
\* get_voices_by_gender_and_locale returns exactly the supported voices of
\* the gender whose VoiceInfo locale is L or whose id encodes L.
C17_LocaleFilter ==
    (lastGen.mode = "locale_selector" /\ lastGen.locale # "None") =>
        \A p \in lastGen.competitors :
            chosen = {<<p, v>> : v \in VoicesOfLocale(p, lastGen.gender, lastGen.locale)}

\* the voice a round-robin over the candidates gives at an index
RoundRobin(candidates, comparison_index) == At(candidates, comparison_index)

RankedRoundRobin ==
    (lastGen.mode = "ranked" /\ ss.blind_test_2_current_pair.kind = "pair") =>
        \A c \in lastGen.competitors :
            /\ RankedCandidates(c, lastGen.gender, lastGen.locale) # <<>>
            /\ <<c, RoundRobin(RankedCandidates(c, lastGen.gender, lastGen.locale),
                               ss.blind_test_2_current_pair.comparison_id)>> \in chosen

UnrankedRoundRobin ==
    (lastGen.mode = "unranked" /\ blind_test.current_pair.kind # "None" /\ chosen # {}) =>
        \A c \in lastGen.competitors :
            \E g \in Genders :
                /\ UnrankedCandidates(c, g) # <<>>
                /\ <<c, RoundRobin(UnrankedCandidates(c, g), blind_test.comparison_count)>>
                       \in chosen

FvsRoundRobin ==
    (lastGen.mode = "fvs" /\ fvs.current_pair.kind # "None" /\ chosen # {}) =>
        \A c \in lastGen.competitors :
            <<c, RoundRobin(FvsFiltered(lastGen.gender, lastGen.locale), fvs.comparison_count)>>
                \in chosen

\* C18: in the ranked, the unranked and the Falcon-vs-Zeroshot generator the
\* voice chosen for a provider is candidates[comparison_index % len(candidates)]
\* over the provider's filtered candidates, so that the provider, the gender,
\* the locale and the comparison index determine the voice.
C18_RoundRobin == RankedRoundRobin /\ UnrankedRoundRobin /\ FvsRoundRobin

(***************************************************************************)
(* The final results of a ranked test (display_final_results_2): the       *)
(* session has recorded the votes of a test, the store has received one    *)
(* call for each of them, and the page shows the final results.            *)
(***************************************************************************)
FinalCompetitors ==
    SelectableCompetitors \cup {<<"murf_falcon_oct23", "deepgram", "cartesia_sonic2">>}

\* the (winner, loser) outcomes of the comparisons of a test
SessionPairs(competitors) ==
    {<<w, l>> : w \in Range(competitors), l \in Range(competitors)} \ {<<p, p>> : p \in Competitors}

\* the results history after least .. most votes
HistoriesOf(competitors, least, most) ==
    UNION {{[i \in 1 .. n |-> [comparison_num |-> i, winner |-> f[i][1], loser |-> f[i][2]]] :
               f \in [1 .. n -> SessionPairs(competitors)]} : n \in least .. most}

\* the results history after 1 .. MaxReplay votes
Histories(competitors) == HistoriesOf(competitors, 1, MaxReplay)

\* the store after the votes of the history
StoreAfter(results) == [update_calls |-> Len(results), save_calls |-> Len(results)]

FinalSession(competitors, results) ==
    [InitSession EXCEPT !.blind_test_2_selected_competitors = competitors,
                        !.blind_test_2_final_competitors = competitors,
                        !.blind_test_2_setup_complete = TRUE,
                        !.blind_test_2_results_history = results,
                        !.blind_test_2_comparison_count = Len(results),
                        !.show_final_results_2 = TRUE]

InitFinal ==
    /\ TTS_PROVIDERS = ShippedRegistry
    /\ InitElo
    /\ InitBlind
    /\ current_page = "Ranked Blind Test"
    /\ InitVoicePages
    /\ InitAdapter
    /\ InitConfig
    /\ InitTasks
    /\ InitQuick
    /\ InitBoard
    /\ \E competitors \in FinalCompetitors :
           \E results \in Histories(competitors) :
               /\ ss = FinalSession(competitors, results)
               /\ db = StoreAfter(results)
    /\ shown = "comparison"
    /\ run = NoRun
    /\ voteStreak = NoStreak
    /\ shownVotes = NoShownVotes
    /\ tests = 1
    /\ sampleFailures = 0
    /\ storeFailures = 0

\* test_session_elo[provider] = 1000.0 for the final competitors, else for the
\* providers with a win or a loss
SeedElo(final_competitors, results) ==
    IF final_competitors # <<>>
    THEN [p \in Range(final_competitors) |-> INITIAL_ELO * EloScale]
    ELSE [p \in {results[i].winner : i \in 1 .. Len(results)}
                    \cup {results[i].loser : i \in 1 .. Len(results)} |->
              INITIAL_ELO * EloScale]

Reverse(seq) == [i \in 1 .. Len(seq) |-> seq[Len(seq) + 1 - i]]

\* the newest comparison replayed first
ReplayOrderNewestFirst(results) == Reverse(results)

\* "for r in results": the order the votes were appended in
ReplayOrder(results) == results

\* the replay loop over the results, in memory
RECURSIVE ReplayResults(_, _)
ReplayResults(elo, results) ==
    IF results = <<>> THEN elo
    ELSE IF Head(results).winner \notin DOMAIN elo \/ Head(results).loser \notin DOMAIN elo
    THEN ReplayResults(elo, Tail(results))
    ELSE ReplayResults(
             [elo EXCEPT
                  ![Head(results).winner] =
                      EloUpdate(elo[Head(results).winner], elo[Head(results).loser]).winner,
                  ![Head(results).loser] =
                      EloUpdate(elo[Head(results).winner], elo[Head(results).loser]).loser],
             Tail(results))

ApplyFinal(r, elo) ==
    /\ ss' = r.ss
    /\ db' = r.db
    /\ shown' = r.view
    /\ test_session_elo' = elo
    /\ eloSteps' = Len(r.ss.blind_test_2_results_history)

\* a run of the page that shows the final results
ShowFinalResults ==
    /\ ss.show_final_results_2
    /\ ss.blind_test_2_results_history # <<>>
    /\ ApplyFinal(display_final_results_2(ss, db, ""),
                  ReplayResults(SeedElo(ss.blind_test_2_final_competitors,
                                        ss.blind_test_2_results_history),
                                ReplayOrder(ss.blind_test_2_results_history)))
    /\ UNCHANGED <<TTS_PROVIDERS, configVars, taskVars, eloLast, blindVars, voiceVars, adapterVars, boardVars,
                   quickVars, run,
                   voteStreak, shownVotes, tests, sampleFailures, storeFailures>>

NextFinal == ShowFinalResults

SpecFinal == InitFinal /\ [][NextFinal]_vars

\* the ratings after the votes of a history: 1000 for all before the first
\* vote, and the pairwise update of the last vote applied to the ratings
\* after the votes before it
AfterVote(before, vote) ==
    [p \in DOMAIN before |->
        IF p = vote.winner THEN EloUpdate(before[vote.winner], before[vote.loser]).winner
        ELSE IF p = vote.loser THEN EloUpdate(before[vote.winner], before[vote.loser]).loser
        ELSE before[p]]

RECURSIVE RatingsAfter(_, _)
RatingsAfter(competitors, results) ==
    IF results = <<>> THEN [p \in Range(competitors) |-> INITIAL_ELO * EloScale]
    ELSE AfterVote(RatingsAfter(competitors, SubSeq(results, 1, Len(results) - 1)),
                   results[Len(results)])

\* C19: the final results of a test session are the replay of the session's
\* recorded (winner, loser) pairs in the order of the votes, every competitor
\* seeded at 1000, computed in memory: the rating store receives no call and
\* the session's history is left as it is.
C19_SessionReplay ==
    shown = "final" =>
        /\ test_session_elo = RatingsAfter(ss.blind_test_2_final_competitors,
                                           ss.blind_test_2_results_history)
        /\ db = StoreAfter(ss.blind_test_2_results_history)

\* final results shown after two votes with opposite outcomes
C19_Witness ==
    /\ shown = "final"
    /\ Len(ss.blind_test_2_results_history) >= 2
    /\ ss.blind_test_2_results_history[1].winner = ss.blind_test_2_results_history[2].loser
    /\ db.update_calls >= 2
    /\ \E p \in DOMAIN test_session_elo : test_session_elo[p] # INITIAL_ELO * EloScale

(***************************************************************************)
(* The Leaderboard page (leaderboard_page).  The votes of the ranked tests *)
(* are read from the store; the page replays them from 1000 and displays   *)
(* one row for each provider, sorted by the rounded rating.                *)
(***************************************************************************)
InitLeaderboard ==
    /\ TTS_PROVIDERS = ShippedRegistry
    /\ InitElo
    /\ InitUI
    /\ InitBlind
    /\ current_page = "Leaderboard"
    /\ InitVoicePages
    /\ InitAdapter
    /\ InitConfig
    /\ InitTasks
    /\ InitQuick
    /\ leaderboard_data = <<>>
    /\ \E configured_providers \in FinalCompetitors :
           \E votes \in Histories(configured_providers) :
               leaderboard = [configured_providers |-> configured_providers,
                              votes |-> votes, rows |-> <<>>]

\* provider_wins.get(provider, 0) and provider_losses.get(provider, 0) after
\* the loop over the votes
Wins(results, provider) ==
    Cardinality({i \in 1 .. Len(results) : results[i].winner = provider})

Losses(results, provider) ==
    Cardinality({i \in 1 .. Len(results) : results[i].loser = provider})

\* the wins alone
TotalWinsOnly(results, provider) == Wins(results, provider)

\* total = wins + losses
Total(results, provider) == Wins(results, provider) + Losses(results, provider)

\* a quotient of two integers; the division fails when den is 0
Ratio(num, den) == [num |-> num, den |-> den]

\* the quotient without the test of the total
win_rate_unguarded(results, provider) ==
    Ratio(Wins(results, provider) * 100, Total(results, provider))

\* win_rate = (wins / total * 100) if total > 0 else 0
win_rate(results, provider) ==
    IF Total(results, provider) > 0
    THEN Ratio(Wins(results, provider) * 100, Total(results, provider))
    ELSE Ratio(0, 1)

\* f"{x:.1f}": x in tenths, to the nearest tenth (a half to the even one);
\* -1 stands for no number, the outcome of a failed division
OneDecimal(x) ==
    IF x.den = 0 THEN -1
    ELSE LET n == 10 * x.num
             d == x.den
         IN  IF 2 * (n % d) > d THEN n \div d + 1
             ELSE IF 2 * (n % d) < d THEN n \div d
             ELSE IF (n \div d) % 2 = 0 THEN n \div d
             ELSE n \div d + 1

\* round(x) of Python: to the nearest integer, a half to the even one
Round(rating) ==
    IF 2 * (rating % EloScale) > EloScale THEN rating \div EloScale + 1
    ELSE IF 2 * (rating % EloScale) < EloScale THEN rating \div EloScale
    ELSE IF (rating \div EloScale) % 2 = 0 THEN rating \div EloScale
    ELSE rating \div EloScale + 1

\* display_data: one row for each provider, in the iteration order of the set
DisplayData(order, elo) ==
    [i \in 1 .. Len(order) |->
        [Provider |-> order[i], ELO |-> Round(elo[order[i]]), rating |-> elo[order[i]],
         Samples |-> Total(leaderboard.votes, order[i]),
         Wins |-> Wins(leaderboard.votes, order[i]),
         Losses |-> Losses(leaderboard.votes, order[i]),
         WinRate |-> IF Total(leaderboard.votes, order[i]) > 0
                     THEN OneDecimal(win_rate(leaderboard.votes, order[i]))
                     ELSE OneDecimal(Ratio(0, 1))]]

\* list.sort(key=ELO, reverse=True) is stable: a row comes after the rows with
\* a greater key and after the rows with an equal key that were before it
SortPosition(rows, key, i) ==
    1 + Cardinality({j \in 1 .. Len(rows) :
                        \/ rows[j][key] > rows[i][key]
                        \/ rows[j][key] = rows[i][key] /\ j < i})

SortedRows(rows, key) ==
    [k \in 1 .. Len(rows) |->
        rows[CHOOSE i \in 1 .. Len(rows) : SortPosition(rows, key, i) = k]]

\* item["Rank"] = i + 1 over enumerate(display_data)
WithRanks(rows) ==
    [i \in 1 .. Len(rows) |->
        [f \in DOMAIN rows[i] \cup {"Rank"} |-> IF f = "Rank" THEN i ELSE rows[i][f]]]

Rows(display_data) ==
    leaderboard' = [leaderboard EXCEPT !.rows = WithRanks(SortedRows(display_data, "ELO"))]

\* order: the iteration order of the set all_providers
leaderboard_page(order) ==
    /\ current_page = "Leaderboard"
    /\ Rows(DisplayData(order, ReplayResults(SeedElo(leaderboard.configured_providers,
                                                      leaderboard.votes),
                                              leaderboard.votes)))
    /\ UNCHANGED <<TTS_PROVIDERS, configVars, taskVars, eloVars, uiVars, blindVars, voiceVars, adapterVars,
                   leaderboard_data, quickVars>>

NextLeaderboard ==
    \E order \in Shuffles(leaderboard.configured_providers) : leaderboard_page(order)

SpecLeaderboard == InitLeaderboard /\ [][NextLeaderboard]_vars

\* C20: the leaderboard lists the providers with the ranks 1..N in descending
\* order of rating: a provider with a strictly higher rating never has a worse
\* rank than a provider with a lower rating.
C20_RankedByRating ==
    /\ \A i \in 1 .. Len(leaderboard.rows) : leaderboard.rows[i].Rank = i
    /\ \A i, j \in 1 .. Len(leaderboard.rows) :
           leaderboard.rows[i].rating > leaderboard.rows[j].rating =>
               leaderboard.rows[i].Rank < leaderboard.rows[j].Rank

(***************************************************************************)
(* The tables of results: the table of the final results of a ranked test  *)
(* (display_final_results_2) and the rows of the Leaderboard page, over    *)
(* the votes of one test, which the session and the store both hold.       *)
(***************************************************************************)
MaxTableVotes == 3

InitTable ==
    /\ TTS_PROVIDERS = ShippedRegistry
    /\ InitElo
    /\ InitBlind
    /\ current_page \in {"Ranked Blind Test", "Leaderboard"}
    /\ InitVoicePages
    /\ InitAdapter
    /\ InitConfig
    /\ InitTasks
    /\ InitQuick
    /\ leaderboard_data = <<>>
    /\ \E competitors \in FinalCompetitors :
           \E results \in HistoriesOf(competitors, 0, MaxTableVotes) :
               /\ ss = FinalSession(competitors, results)
               /\ db = StoreAfter(results)
               /\ leaderboard = [configured_providers |-> competitors,
                                 votes |-> results, rows |-> <<>>]
    /\ shown = "comparison"
    /\ run = NoRun
    /\ voteStreak = NoStreak
    /\ shownVotes = NoShownVotes
    /\ tests = 1
    /\ sampleFailures = 0
    /\ storeFailures = 0

\* leaderboard_data before the sort: one row for each provider of
\* all_providers, in the iteration order of the set
LeaderboardData(order, results) ==
    [i \in 1 .. Len(order) |->
        [Provider |-> order[i],
         Wins |-> Wins(results, order[i]),
         Losses |-> Losses(results, order[i]),
         WinRate |-> OneDecimal(win_rate(results, order[i])),
         Samples |-> Total(results, order[i])]]

\* a run of the page that shows the final results, with the table;
\* order: the iteration order of set(final_competitors)
ShowFinalTable(order) ==
    /\ current_page = "Ranked Blind Test"
    /\ ss.show_final_results_2
    /\ ss.blind_test_2_results_history # <<>>
    /\ ApplyFinal(display_final_results_2(ss, db, ""),
                  ReplayResults(SeedElo(ss.blind_test_2_final_competitors,
                                        ss.blind_test_2_results_history),
                                ReplayOrder(ss.blind_test_2_results_history)))
    /\ leaderboard_data' =
           WithRanks(SortedRows(LeaderboardData(order, ss.blind_test_2_results_history),
                                "WinRate"))
    /\ UNCHANGED <<TTS_PROVIDERS, configVars, taskVars, eloLast, blindVars, voiceVars, adapterVars, leaderboard,
                   quickVars, run,
                   voteStreak, shownVotes, tests, sampleFailures, storeFailures>>

\* the button "View Full Leaderboard" under the final results
ViewFullLeaderboard ==
    /\ current_page = "Ranked Blind Test"
    /\ shown = "final"
    /\ current_page' = "Leaderboard"
    /\ UNCHANGED <<TTS_PROVIDERS, configVars, taskVars, eloVars, uiVars, blindVars, adapterVars, boardVars, quickVars,
                   blind_test, fvs, chosen, lastGen>>

NextTable ==
    \/ \E order \in Shuffles(ss.blind_test_2_final_competitors) : ShowFinalTable(order)
    \/ ViewFullLeaderboard
    \/ \E order \in Shuffles(leaderboard.configured_providers) : leaderboard_page(order)

SpecTable == InitTable /\ [][NextTable]_vars

\* C21: the table of the final results ranks the competitors of the session
\* by their session rating, descending: a competitor with a strictly higher
\* session rating has a better rank.
C21_FinalRankedByElo ==
    \A i, j \in 1 .. Len(leaderboard_data) :
        test_session_elo[leaderboard_data[i].Provider]
                > test_session_elo[leaderboard_data[j].Provider] =>
            leaderboard_data[i].Rank < leaderboard_data[j].Rank

\* the comparisons of the recorded votes the provider took part in
GamesPlayed(provider) ==
    Cardinality({i \in 1 .. Len(leaderboard.votes) :
                    provider \in {leaderboard.votes[i].winner, leaderboard.votes[i].loser}})

\* C27: every provider row of the session results and of the leaderboard has
\* Samples, the games played by the provider, equal to its wins plus its losses.
C27_SamplesWinsPlusLosses ==
    /\ \A i \in 1 .. Len(leaderboard_data) :
           /\ leaderboard_data[i].Samples = leaderboard_data[i].Wins + leaderboard_data[i].Losses
           /\ leaderboard_data[i].Samples = GamesPlayed(leaderboard_data[i].Provider)
    /\ \A i \in 1 .. Len(leaderboard.rows) :
           /\ leaderboard.rows[i].Samples = leaderboard.rows[i].Wins + leaderboard.rows[i].Losses
           /\ leaderboard.rows[i].Samples = GamesPlayed(leaderboard.rows[i].Provider)

\* both tables shown after votes: a provider with wins and losses, and one
\* that took part in no comparison
C27_Witness ==
    /\ Len(leaderboard_data) = 3
    /\ Len(leaderboard.rows) = 3
    /\ \E i \in 1 .. 3 : leaderboard_data[i].Wins >= 1 /\ leaderboard_data[i].Losses >= 1
    /\ \E i \in 1 .. 3 : leaderboard.rows[i].Wins >= 1 /\ leaderboard.rows[i].Losses >= 1
    /\ \E i \in 1 .. 3 : leaderboard.rows[i].Samples = 0

\* the win rate displayed, in tenths of a percent, is the number nearest to
\* wins / games * 100
NearestTenth(row) ==
    /\ row.WinRate >= 0
    /\ 2 * row.WinRate * row.Samples - 2000 * row.Wins <= row.Samples
    /\ 2000 * row.Wins - 2 * row.WinRate * row.Samples <= row.Samples

\* C28: a provider with zero games played is reported with win rate 0;
\* otherwise its win rate is wins / games_played * 100.
C28_WinRate ==
    /\ \A i \in 1 .. Len(leaderboard_data) :
           IF GamesPlayed(leaderboard_data[i].Provider) = 0
           THEN leaderboard_data[i].WinRate = 0
           ELSE NearestTenth(leaderboard_data[i])
    /\ \A i \in 1 .. Len(leaderboard.rows) :
           IF GamesPlayed(leaderboard.rows[i].Provider) = 0
           THEN leaderboard.rows[i].WinRate = 0
           ELSE NearestTenth(leaderboard.rows[i])

\* both tables shown: a provider with no game, and a win rate that is not a
\* whole percentage
C28_Witness ==
    /\ \E i \in 1 .. Len(leaderboard_data) : leaderboard_data[i].Samples = 0
    /\ \E i \in 1 .. Len(leaderboard.rows) : leaderboard.rows[i].Samples = 0
    /\ \E i \in 1 .. Len(leaderboard_data) : leaderboard_data[i].WinRate % 10 # 0
    /\ \E i \in 1 .. Len(leaderboard.rows) : leaderboard.rows[i].WinRate % 10 # 0

(***************************************************************************)
(* The Quick Test page: "Generate & Compare" runs run_quick_test over the  *)
(* selected providers, one provider after the other.  An attempt makes the *)
(* provider with the factory and runs one test with the benchmark engine,  *)
(* which returns a result that tells success or failure.                   *)
(***************************************************************************)
MaxQuickProviders == 3

\* the provider ids TTSProviderFactory.create_provider has a branch for
FactoryIds ==
    {"murf_falcon_oct23", "deepgram", "deepgram_aura2", "elevenlabs_flash", "elevenlabs_v3",
     "openai", "cartesia_sonic2", "cartesia_turbo", "cartesia_sonic3", "sarvam"}

\* selected_providers: the options of the multiselect chosen, each one once;
\* the options are the configured providers of the registry
QuickSelections ==
    UNION {{sel \in [1 .. n -> ProviderIds] : \A a, b \in 1 .. n : a # b => sel[a] # sel[b]} :
              n \in 1 .. MaxQuickProviders}

\* what run_single_test returns: a result with success or without
RunOutcomes == {TRUE, FALSE}

NoResult == [none |-> TRUE, provider |-> "", success |-> FALSE]

\* test_provider: None when the factory raises, else the result of the run
test_provider(provider_id, success) ==
    IF provider_id \notin FactoryIds THEN NoResult
    ELSE [none |-> FALSE, provider |-> provider_id, success |-> success]

\* the progress bar is moved only after an attempt that has a result
ProgressOnResultOnly(progress, result, i, n) ==
    IF result.none THEN progress ELSE Append(progress, [completed |-> i + 1, total |-> n])

\* progress_bar.progress((i + 1) / len(providers))
Progress(progress, result, i, n) == Append(progress, [completed |-> i + 1, total |-> n])

\* the ratings of the store updated after an attempt
StoreAfterAttemptRated(D) == [D EXCEPT !.update_calls = @ + 1]

\* the store after an attempt: the loop makes no call of the store
StoreAfterAttempt(D) == D

\* "Generate & Compare" with a text and at least one provider
GenerateAndCompare(providers) ==
    /\ current_page = "Quick Test"
    /\ ~quick_test.running
    /\ quick_test' = [NoQuick EXCEPT !.providers = providers, !.running = TRUE,
                                     !.quick_test_results = quick_test.quick_test_results]
    /\ UNCHANGED <<TTS_PROVIDERS, configVars, taskVars, eloVars, uiVars, blindVars, voiceVars, adapterVars, boardVars>>

\* one iteration of "for i, provider_id in enumerate(providers)"
TestProvider(success) ==
    /\ quick_test.running
    /\ quick_test.i < Len(quick_test.providers)
    /\ LET provider_id == quick_test.providers[quick_test.i + 1]
           result == test_provider(provider_id, success)
       IN  quick_test' =
               [quick_test EXCEPT
                    !.attempts = Append(@, provider_id),
                    !.errors = IF result.none THEN Append(@, provider_id) ELSE @,
                    !.results = IF result.none THEN @ ELSE Append(@, result),
                    !.progress = Progress(@, result, quick_test.i, Len(quick_test.providers)),
                    !.i = @ + 1]
    /\ db' = StoreAfterAttempt(db)
    /\ UNCHANGED <<TTS_PROVIDERS, configVars, taskVars, eloVars, blindVars, voiceVars, adapterVars, boardVars, ss, shown,
                   run, voteStreak, shownVotes, tests, sampleFailures, storeFailures>>

\* after the loop: the results are stored if there are some
QuickTestCompleted ==
    /\ quick_test.running
    /\ quick_test.i = Len(quick_test.providers)
    /\ quick_test' = [quick_test EXCEPT !.running = FALSE,
                                        !.quick_test_results = quick_test.results]
    /\ UNCHANGED <<TTS_PROVIDERS, configVars, taskVars, eloVars, uiVars, blindVars, voiceVars, adapterVars, boardVars>>

\* the pages that leave the ratings alone
InitQuickTest ==
    /\ TTS_PROVIDERS = ShippedRegistry
    /\ InitElo
    /\ InitUI
    /\ InitBlind
    /\ current_page \in {"Quick Test", "Falcon vs Zeroshot"}
    /\ InitVoicePages
    /\ InitAdapter
    /\ InitConfig
    /\ InitTasks
    /\ InitQuick
    /\ InitBoard

NextQuick ==
    \/ \E providers \in QuickSelections : GenerateAndCompare(providers)
    \/ \E success \in RunOutcomes : TestProvider(success)
    \/ QuickTestCompleted
    \/ \E locale \in {"None", "en-US", "en-UK"}, new_gender \in Genders :
           display_fvs_setup(locale, new_gender)
    \/ StartComparison
    \/ \E shuffled_to \in 0 .. 2 : generate_fvs_comparison(shuffled_to)
    \/ FvsRetry

SpecQuick == InitQuickTest /\ [][NextQuick]_vars

\* C22: over the N selected providers of a quick test, progress is reported
\* once for each provider attempted, the k-th report is k of N, and when the
\* run is over the last report is N of N.
C22_ProgressPerItem ==
    /\ Len(quick_test.progress) = quick_test.i
    /\ \A k \in 1 .. Len(quick_test.progress) :
           /\ quick_test.progress[k].completed = k
           /\ quick_test.progress[k].total = Len(quick_test.providers)
    /\ (~quick_test.running /\ quick_test.providers # <<>>) =>
           quick_test.progress[Len(quick_test.progress)] =
               [completed |-> Len(quick_test.providers), total |-> Len(quick_test.providers)]

\* a run over three providers is over, the factory raised for the second one
\* and the run of the third one failed
C22_Witness ==
    /\ ~quick_test.running
    /\ Len(quick_test.providers) = 3
    /\ quick_test.errors = <<quick_test.providers[2]>>
    /\ \E k \in 1 .. Len(quick_test.results) : ~quick_test.results[k].success
    /\ Len(quick_test.progress) = 3

\* C23: a failure of one provider never aborts the batch: the providers
\* attempted are the selected providers, each once and in order, and when the
\* run is over every selected provider has a result in the results of the run.
C23_FailuresRecorded ==
    /\ quick_test.attempts = SubSeq(quick_test.providers, 1, quick_test.i)
    /\ (~quick_test.running /\ quick_test.providers # <<>>) =>
           /\ quick_test.i = Len(quick_test.providers)
           /\ \A a \in 1 .. Len(quick_test.providers) :
                  \E k \in 1 .. Len(quick_test.results) :
                      quick_test.results[k].provider = quick_test.providers[a]

\* C24: a vote handled while the rating update or the save of the vote fails
\* is not treated as completed: no result is recorded, the comparison does not
\* advance, and the comparison is not marked as voted, so that the same vote
\* can be submitted again.
C24_FailedVoteNotCompleted ==
    [][(run'.handler /\ run'.updates = 1 /\ storeFailures' > storeFailures) =>
          /\ ss'.blind_test_2_results_history = ss.blind_test_2_results_history
          /\ ss'.blind_test_2_comparison_count = ss.blind_test_2_comparison_count
          /\ ss'.last_voted_comparison_2 # ss'.blind_test_2_comparison_count]_vars

\* C25: a vote in the Unranked Blind Test never calls the persistent rating
\* update and saves no vote record: the store is as it was before the vote.
C25_UnrankedVoteLeavesStore ==
    [][(current_page = "Unranked Blind Test"
          /\ blind_test'.comparison_count = blind_test.comparison_count + 1) => db' = db]_vars

MaxPingMs == 2

\* what a probe ends in: a response of any status, or an exception
ProbeOutcomes ==
    {"status_200", "status_404", "status_405", "timeout", "connection_error", "cancelled"}

\* the probe raised: no response entered the "async with" block
ProbeFailed(outcome) == outcome \in {"timeout", "connection_error", "cancelled"}

\* "except Exception:" lets asyncio.CancelledError through
CaughtExceptionOnly(outcome) == outcome # "cancelled"

\* the bare "except:" of both probes catches every exception
Caught(outcome) == TRUE

\* what the call returns, or that it raised
PingResult(provider_id, head, get, elapsed) ==
    IF ~ProbeFailed(head)
    THEN [provider_id |-> provider_id, head |-> head, get |-> "", raised |-> FALSE,
          latency_ms |-> elapsed]
    ELSE IF ~Caught(head)
    THEN [provider_id |-> provider_id, head |-> head, get |-> "", raised |-> TRUE,
          latency_ms |-> 0]
    ELSE IF ~ProbeFailed(get)
    THEN [provider_id |-> provider_id, head |-> head, get |-> get, raised |-> FALSE,
          latency_ms |-> elapsed]
    ELSE [provider_id |-> provider_id, head |-> head, get |-> get, raised |-> ~Caught(get),
          latency_ms |-> 0]

measure_ping_latency(head, get, elapsed) ==
    /\ adapter # NoAdapter
    /\ ping' = PingResult(adapter.provider_id, head, get, elapsed)
    /\ UNCHANGED <<adapter, call, voices_requests, ElseThanAdapter>>

NextPing ==
    \/ \E provider_id \in AdapterIds : create_provider(provider_id)
    \/ \E head \in ProbeOutcomes, get \in ProbeOutcomes, elapsed \in 1 .. MaxPingMs :
           measure_ping_latency(head, get, elapsed)

SpecPing == Init /\ [][NextPing]_vars

\* C29: measure_ping_latency never raises, and when the HEAD probe and the
\* GET probe both fail it returns 0.
C29_PingNeverRaises ==
    /\ ~ping.raised
    /\ (ProbeFailed(ping.head) /\ ProbeFailed(ping.get)) => ping.latency_ms = 0

\* both probes failed, the second one by a cancellation
C29_Witness ==
    /\ ping.head = "timeout"
    /\ ping.get = "cancelled"
    /\ ping.latency_ms = 0

\* C30: a vote for label X on the pair displayed records as winner the
\* provider whose audio was played under X and as loser the provider of the
\* other audio, whatever the random A/B order of the pair.
C30_VoteCreditsDisplayed ==
    [][(run'.handler /\ run'.updates = 1) =>
          /\ ss.blind_test_2_current_pair.kind = "pair"
          /\ ss'.blind_test_2_results_history[Len(ss'.blind_test_2_results_history)].winner =
                 (IF run'.choice = "A" THEN ss.blind_test_2_current_pair.sample_a
                  ELSE ss.blind_test_2_current_pair.sample_b)
          /\ ss'.blind_test_2_results_history[Len(ss'.blind_test_2_results_history)].loser =
                 (IF run'.choice = "A" THEN ss.blind_test_2_current_pair.sample_b
                  ELSE ss.blind_test_2_current_pair.sample_a)]_vars

\* a vote for B on a pair stored in swapped order: the first competitor of
\* the pair, played under B, is the winner
C30_Witness ==
    /\ run.handler
    /\ run.updates = 1
    /\ run.choice = "B"
    /\ ss.blind_test_2_results_history # <<>>
    /\ ss.blind_test_2_comparison_pairs # <<>>
    /\ ss.blind_test_2_results_history[Len(ss.blind_test_2_results_history)].winner =
           ss.blind_test_2_comparison_pairs[ss.blind_test_2_pair_index][1]

\* C31: a pair is offered for voting only if both samples were generated: a
\* generation that fails stores no pair to vote on, and a run that starts
\* without such a pair (none, or the error pair) records no vote and makes no
\* call of the store.
C31_VoteOnlyOnGeneratedPair ==
    [][/\ sampleFailures' > sampleFailures => ss'.blind_test_2_current_pair.kind # "pair"
       /\ ss.blind_test_2_current_pair.kind # "pair" =>
              /\ db' = db
              /\ ~(run'.handler /\ run'.updates > 0)
              /\ Len(ss'.blind_test_2_results_history) <= Len(ss.blind_test_2_results_history)
              /\ ss'.blind_test_2_comparison_count <= ss.blind_test_2_comparison_count]_vars

\* after a vote, the generation of the next comparison failed: the error pair
\* is stored and the error is displayed
C31_Witness ==
    /\ ss.blind_test_2_current_pair = ErrorPair
    /\ shown = "error"
    /\ sampleFailures = 1
    /\ db.update_calls = 1
    /\ Len(ss.blind_test_2_results_history) = 1


\* C32: at every point of a ranked blind test the number of recorded results
\* equals blind_test_2_comparison_count, and that count never exceeds
\* blind_test_2_max_comparisons.
C32_ResultsMatchCount ==
    /\ Len(ss.blind_test_2_results_history) = ss.blind_test_2_comparison_count
    /\ ss.blind_test_2_comparison_count <= ss.blind_test_2_max_comparisons

C32_Witness ==
    /\ ss.show_final_results_2
    /\ ss.blind_test_2_comparison_count = ss.blind_test_2_max_comparisons
    /\ Len(ss.blind_test_2_results_history) = ss.blind_test_2_max_comparisons
    /\ db.update_calls = ss.blind_test_2_max_comparisons


(***************************************************************************)
(* TTSProviderFactory over the whole registry: get_available_providers     *)
(* lists the keys of TTS_PROVIDERS, create_provider has a branch per class.*)
(***************************************************************************)
\* list(TTS_PROVIDERS.keys()): the twelve keys of the shipped registry
get_available_providers ==
    {"murf_falcon_oct23", "murf_zeroshot", "deepgram", "deepgram_aura2", "elevenlabs_flash",
     "elevenlabs_v3", "openai", "cartesia_sonic2", "cartesia_turbo", "cartesia_sonic3",
     "sarvam", "sarvam_bulbul_v3"}

\* raise ValueError(f"Unknown provider: {provider_id}")
UnknownProvider(provider_id) ==
    [NoCall EXCEPT !.provider_id = provider_id, !.raised = TRUE,
                   !.error_message = "Unknown provider"]

\* create_provider for an id of the registry: a new instance from the branch
\* of the id, or the ValueError of the else branch
create_available_provider(provider_id) ==
    IF provider_id \in FactoryIds
    THEN create_provider(provider_id)
    ELSE /\ call' = UnknownProvider(provider_id)
         /\ UNCHANGED <<adapter, voices_requests, ping>>
         /\ UNCHANGED ElseThanAdapter

NextFactory ==
    \/ \E provider_id \in get_available_providers : create_available_provider(provider_id)
    \/ \E head \in ProbeOutcomes, get \in ProbeOutcomes, elapsed \in 1 .. MaxPingMs :
           measure_ping_latency(head, get, elapsed)

SpecFactory == Init /\ [][NextFactory]_vars

\* C33: every provider id returned by get_available_providers can be
\* instantiated by create_provider without an "Unknown provider" error.
C33_EveryAvailableProviderCreated ==
    ~(call.raised /\ call.error_message = "Unknown provider"
                  /\ call.provider_id \in get_available_providers)



(***************************************************************************)
(* The ranked blind test with three selected competitors: three pairs to   *)
(* cycle through.                                                          *)
(***************************************************************************)
ThreeCompetitors == {<<"murf_falcon_oct23", "deepgram", "cartesia_sonic2">>}

ClickStartBattleOfThree == StartBattle(ThreeCompetitors)

NextCycle ==
    \/ RunPage
    \/ \E choice \in {"A", "B"} : ClickVote(choice)
    \/ ClickEndTest
    \/ ClickRetry
    \/ ClickStartNewTest
    \/ ClickStartBattleOfThree

SpecCycle == Init /\ [][NextCycle]_vars

\* the unordered provider pairs of the results recorded in the running test:
\* every pair that was presented for voting before the current one was
\* voted on, since only a vote makes the page generate the next pair
VotedPairs(S) ==
    {{S.blind_test_2_results_history[i].winner, S.blind_test_2_results_history[i].loser} :
         i \in 1 .. Len(S.blind_test_2_results_history)}

\* the unordered provider pairs of the test
TestPairs(S) ==
    {{S.blind_test_2_comparison_pairs[i][1], S.blind_test_2_comparison_pairs[i][2]} :
         i \in 1 .. Len(S.blind_test_2_comparison_pairs)}

\* C34: comparisons cycle through all unordered provider pairs: no pair is
\* presented for voting again before every other pair of the test has been
\* presented for voting once, also when a generation fails and is retried.
C34_PairsCycle ==
    (/\ shown = "comparison"
     /\ ss.blind_test_2_current_pair.kind = "pair"
     /\ {ss.blind_test_2_current_pair.provider_a, ss.blind_test_2_current_pair.provider_b}
            \in VotedPairs(ss))
        => TestPairs(ss) \subseteq VotedPairs(ss)


\* C35: every persistent rating update is accompanied by exactly one saved
\* vote record for the same (winner, loser): the update_elo_ratings calls of
\* a vote and its save_user_vote calls are the same calls, in number and in
\* (winner, loser).
C35_UpdatesMatchSaves == blindVote.updates = blindVote.saves


\* get_available_voices: the names of the fetched voice map of an ElevenLabs
\* adapter once it is not empty, the supported_voices of the descriptor
\* otherwise and for every other adapter
get_available_voices(A) ==
    IF A.provider_id \in ElevenLabsIds /\ A.voice_id_map # {}
    THEN A.voice_id_map
    ELSE TTS_PROVIDERS[A.provider_id].supported_voices

\* C36: for every adapter, at any time, every voice returned by
\* get_available_voices passes the voice check of validate_request (is in
\* the supported_voices of the provider).
C36_AvailableVoicesSupported ==
    adapter # NoAdapter =>
        get_available_voices(adapter) \subseteq TTS_PROVIDERS[adapter.provider_id].supported_voices


(***************************************************************************)
(* config.py: get_api_key reads the variable named by api_key_env of the   *)
(* provider; validate_config calls it for every provider of the registry.  *)
(***************************************************************************)
\* TTS_PROVIDERS[provider].api_key_env
api_key_env(provider) ==
    CASE provider = "murf_falcon_oct23" -> "MURF_API_KEY"
      [] provider = "murf_zeroshot" -> "MURF_DEV_API_KEY"
      [] provider \in {"deepgram", "deepgram_aura2"} -> "DEEPGRAM_API_KEY"
      [] provider \in {"elevenlabs_flash", "elevenlabs_v3"} -> "ELEVENLABS_API_KEY"
      [] provider = "openai" -> "OPENAI_API_KEY"
      [] provider \in {"cartesia_sonic2", "cartesia_turbo", "cartesia_sonic3"} ->
             "CARTESIA_API_KEY"
      [] provider \in {"sarvam", "sarvam_bulbul_v3"} -> "SARVAM_API_KEY"

\* what a variable of the environment holds: nothing, or a key
EnvValues == {"", "key_from_env"}

\* the providers get_api_key is called with: those of the registry and another id
KeyProviders == get_available_providers \cup {"unknown_provider"}

\* the special handling of murf_zeroshot
HasFallbackKey(provider) == provider = "murf_zeroshot"

\* get_api_key: the key it returns, or that it raised ValueError
get_api_key(provider, env) ==
    IF provider \notin get_available_providers
    THEN [provider |-> provider, raised |-> TRUE, key |-> ""]
    ELSE IF HasFallbackKey(provider)
    THEN [provider |-> provider, raised |-> FALSE,
          key |-> IF env[api_key_env(provider)] # ""
                  THEN env[api_key_env(provider)] ELSE "hardcoded_dev_key"]
    ELSE IF env[api_key_env(provider)] = ""
    THEN [provider |-> provider, raised |-> TRUE, key |-> ""]
    ELSE [provider |-> provider, raised |-> FALSE, key |-> env[api_key_env(provider)]]

\* validate_config: a provider is configured unless get_api_key raised
ConfigStatus(env) ==
    [called |-> TRUE,
     configured |-> {p \in get_available_providers : ~get_api_key(p, env).raised},
     configured_count |->
         Cardinality({p \in get_available_providers : ~get_api_key(p, env).raised}),
     valid |-> Cardinality({p \in get_available_providers : ~get_api_key(p, env).raised}) > 0]

ElseThanConfig ==
    <<TTS_PROVIDERS, eloVars, uiVars, blindVars, voiceVars, adapterVars, boardVars, quickVars,
      taskVars>>

GetApiKey(provider) ==
    /\ key_call' = get_api_key(provider, environ)
    /\ UNCHANGED <<environ, config_status, ElseThanConfig>>

validate_config ==
    /\ config_status' = ConfigStatus(environ)
    /\ UNCHANGED <<environ, key_call, ElseThanConfig>>

\* a process started in any environment
InitEnvironment ==
    /\ TTS_PROVIDERS = ShippedRegistry
    /\ InitElo
    /\ InitUI
    /\ InitBlind
    /\ current_page = "Ranked Blind Test"
    /\ InitVoicePages
    /\ InitAdapter
    /\ InitTasks
    /\ InitQuick
    /\ InitBoard
    /\ environ \in [EnvVarNames -> EnvValues]
    /\ key_call = NoKeyCall
    /\ config_status = NoStatus

NextConfig ==
    \/ \E provider \in KeyProviders : GetApiKey(provider)
    \/ validate_config

SpecConfig == InitEnvironment /\ [][NextConfig]_vars

\* C37: get_api_key returns a key only from the API-key variable of the
\* provider: for every registered provider whose variable is unset it raises
\* ValueError, so validate_config reports that provider as not configured.
C37_KeyOnlyFromEnvironment ==
    /\ (key_call.provider \in get_available_providers /\ ~key_call.raised) =>
           /\ environ[api_key_env(key_call.provider)] # ""
           /\ key_call.key = environ[api_key_env(key_call.provider)]
    /\ config_status.called =>
           \A p \in get_available_providers :
               environ[api_key_env(p)] = "" => p \notin config_status.configured


(***************************************************************************)
(* Concurrent generate_speech calls on one ElevenLabs instance.  The       *)
(* coroutines of one event loop run one at a time and switch at an await:  *)
(* a step is the code between two awaits.                                  *)
(***************************************************************************)
ElseThanTasks ==
    <<TTS_PROVIDERS, configVars, eloVars, uiVars, blindVars, voiceVars, boardVars, quickVars>>

\* the one instance the calls share
CreateInstance ==
    /\ adapter = NoAdapter
    /\ create_provider("elevenlabs_flash")
    /\ UNCHANGED tasks

\* self.voice_id_map after the answer to GET /v1/voices: the names of the
\* answer are added to the map, the fallback map replaces an empty or failed one
VoiceIdMapAfter(voice_id_map, prefetch, account) ==
    IF prefetch = "status_200" /\ voice_id_map \cup account # {}
    THEN voice_id_map \cup account
    ELSE FallbackVoiceIdMap

\* the voice check of validate_request and of generate_speech
VoiceSupported(voice) == voice \in TTS_PROVIDERS[adapter.provider_id].supported_voices

\* the voices of the concurrent requests
TaskVoices == {"Laura", "Jarnathan", "nova"}

\* generate_speech up to its first await: the voices request of
\* _fetch_voices_from_api when _voices_fetched is unset, else the validation
\* and the synthesis request
BeginGenerateSpeech(t, voice) ==
    /\ adapter # NoAdapter
    /\ tasks.pc[t] = "idle"
    /\ IF ~adapter.voices_fetched
       THEN /\ voices_requests[adapter.provider_id] < MaxVoicesRequests
            /\ tasks' = [tasks EXCEPT !.pc[t] = "fetching", !.voice[t] = voice,
                                      !.fetch_calls = @ + 1]
            /\ voices_requests' = [voices_requests EXCEPT ![adapter.provider_id] = @ + 1]
       ELSE /\ tasks' = [tasks EXCEPT !.pc[t] = IF VoiceSupported(voice)
                                                THEN "synthesis" ELSE "idle",
                                      !.voice[t] = voice]
            /\ UNCHANGED voices_requests
    /\ UNCHANGED <<adapter, call, ping, ElseThanTasks>>

\* the voices request is answered: the map is filled, _voices_fetched is set,
\* the request is validated and the synthesis request is sent
VoicesAnswered(t, prefetch, account) ==
    /\ tasks.pc[t] = "fetching"
    /\ adapter' = [adapter EXCEPT !.voices_fetched = TRUE,
                                  !.voice_id_map = VoiceIdMapAfter(@, prefetch, account)]
    /\ tasks' = [tasks EXCEPT !.pc[t] = IF VoiceSupported(tasks.voice[t])
                                        THEN "synthesis" ELSE "idle"]
    /\ UNCHANGED <<call, voices_requests, ping, ElseThanTasks>>

\* the synthesis request is answered: a 404 makes the call request the voices
\* list itself, then the call returns
SpeechAnswered(t, net) ==
    /\ tasks.pc[t] = "synthesis"
    /\ IF net = "status_404"
       THEN /\ voices_requests[adapter.provider_id] < MaxVoicesRequests
            /\ voices_requests' = [voices_requests EXCEPT ![adapter.provider_id] = @ + 1]
       ELSE UNCHANGED voices_requests
    /\ tasks' = [tasks EXCEPT !.pc[t] = "idle"]
    /\ UNCHANGED <<adapter, call, ping, ElseThanTasks>>

NextTasks ==
    \/ CreateInstance
    \/ \E t \in Tasks, voice \in TaskVoices : BeginGenerateSpeech(t, voice)
    \/ \E t \in Tasks, prefetch \in {"status_200", "status_500", "timeout"},
          account \in Accounts :
           VoicesAnswered(t, prefetch, account)
    \/ \E t \in Tasks, net \in {"status_200", "status_404", "status_500"} :
           SpeechAnswered(t, net)

SpecTasks == Init /\ [][NextTasks]_vars

\* C38: for a single ElevenLabs adapter instance, under any interleaving of
\* concurrent generate_speech calls on that instance, the voice-directory
\* request of _fetch_voices_from_api is issued at most once.
C38_DirectoryRequestedOnce == tasks.fetch_calls <= 1

====
